---- MODULE Spec2Model ----
(***************************************************************************)
(* Availability search of the OTA web application                          *)
(* (src/app/web/availability (2).py, availability_search): validation,     *)
(* departure-airport resolution, the per-airport fan-out and the           *)
(* aggregation of the collected offers into ranked product groups.         *)
(*                                                                         *)
(* Text values are sequences of one-character strings, so that upper(),    *)
(* strip(), slicing, split() and LIKE are computed as the code computes    *)
(* them.  Python's None / SQL NULL is the value None.                      *)
(***************************************************************************)
EXTENDS Integers, Sequences, FiniteSets, TLC

(***************************************************************************)
(* Bounds of the model                                                     *)
(***************************************************************************)
\* activities in one Availability response
MaxActs == 1
\* offers handed to the aggregator in the aggregation-only specification
MaxOffers == 3

(***************************************************************************)
(* Text                                                                    *)
(***************************************************************************)
None == <<"None">>

\* characters of the model in ASCII order (Python str / SQLite BINARY order)
Alphabet == << " ", "#", ",", "/", "0", "1", "B", "C", "D", "E", "F", "G", "I",
               "L", "M", "N", "O", "P", "R", "S", "U", "V", "X", "Y", "_", "b",
               "g", "y", "|" >>

CharRank(c) == CHOOSE i \in 1..Len(Alphabet) : Alphabet[i] = c

\* str.upper() / SQL UPPER() on one character
UpperChar(c) ==
    CASE c = "b" -> "B"
      [] c = "g" -> "G"
      [] c = "y" -> "Y"
      [] OTHER   -> c

Upper(s) == [i \in 1..Len(s) |-> UpperChar(s[i])]

RECURSIVE LStrip(_)
LStrip(s) == IF s # <<>> /\ Head(s) = " " THEN LStrip(Tail(s)) ELSE s

RECURSIVE RStrip(_)
RStrip(s) ==
    IF s # <<>> /\ s[Len(s)] = " " THEN RStrip(SubSeq(s, 1, Len(s) - 1)) ELSE s

\* str.strip()
Strip(s) == LStrip(RStrip(s))

\* s[:n]
Take(s, n) == SubSeq(s, 1, IF Len(s) < n THEN Len(s) ELSE n)

\* s.startswith(p)
StartsWith(s, p) == Len(p) <= Len(s) /\ SubSeq(s, 1, Len(p)) = p

\* position of the first ch in s, 0 when absent (SQL INSTR)
Instr(s, ch) ==
    IF \E i \in 1..Len(s) : s[i] = ch
    THEN CHOOSE i \in 1..Len(s) : s[i] = ch /\ \A j \in 1..(i - 1) : s[j] # ch
    ELSE 0

\* SQL SUBSTR(s, from, n) for from >= 1
Substr(s, from, n) ==
    SubSeq(s, from, IF Len(s) < from + n - 1 THEN Len(s) ELSE from + n - 1)

\* s.split(ch, 1): the part before the first ch, and the part after it
\* (None when s holds no ch, where split returns a single element)
SplitLeft(s, ch) == IF Instr(s, ch) = 0 THEN s ELSE SubSeq(s, 1, Instr(s, ch) - 1)
SplitRight(s, ch) ==
    IF Instr(s, ch) = 0 THEN None ELSE SubSeq(s, Instr(s, ch) + 1, Len(s))

\* lexicographic order of str
RECURSIVE StrLess(_, _)
StrLess(a, b) ==
    IF b = <<>> THEN FALSE
    ELSE IF a = <<>> THEN TRUE
    ELSE IF Head(a) = Head(b) THEN StrLess(Tail(a), Tail(b))
    ELSE CharRank(Head(a)) < CharRank(Head(b))

\* sorted(S) for a set S of str
RECURSIVE SortedStrs(_)
SortedStrs(S) ==
    IF S = {} THEN <<>>
    ELSE LET m == CHOOSE x \in S : \A y \in S \ {x} : StrLess(x, y)
         IN  <<m>> \o SortedStrs(S \ {m})

\* ", ".join(seq)
RECURSIVE Join(_)
Join(seq) ==
    IF seq = <<>> THEN <<>>
    ELSE IF Len(seq) = 1 THEN seq[1]
    ELSE seq[1] \o <<",", " ">> \o Join(Tail(seq))

Range(f) == {f[i] : i \in DOMAIN f}

(***************************************************************************)
(* Dates.  A date text is a record: k = "date" is an ISO 'YYYY-MM-DD' day  *)
(* number d, followed by a time part when t = "T" ('YYYY-MM-DDT00:00:00'); *)
(* k = "empty" is '', k = "bad" is a text that is no date, k = "none" is   *)
(* None.  ISO dates order as text the way their day numbers order.         *)
(***************************************************************************)
DateText(d)     == [d |-> d, k |-> "date", t |-> ""]
DateTimeText(d) == [d |-> d, k |-> "date", t |-> "T"]
EmptyDate       == [d |-> 0, k |-> "empty", t |-> ""]
BadDate         == [d |-> 0, k |-> "bad", t |-> ""]
NoneDate        == [d |-> 0, k |-> "none", t |-> ""]

\* bool(x) of a date text
DateTruthy(x) == x.k \in {"date", "bad"}

\* (x or "")[:10]
Take10(x) ==
    IF x.k = "none" THEN EmptyDate
    ELSE IF x.k = "date" THEN DateText(x.d)
    ELSE x

\* datetime.strptime(x, "%Y-%m-%d") and date.fromisoformat(x) succeed
IsIsoDate(x) == x.k = "date" /\ x.t = ""

\* text comparison a <= b, a an ISO date and b any non-empty text
TextLeq(a, b) ==
    IF b.k = "date" THEN a.d < b.d \/ (a.d = b.d /\ (a.t = "" \/ a.t = b.t))
    ELSE b.k = "bad"

(***************************************************************************)
(* Settings and get_cfg                                                    *)
(***************************************************************************)
\* s.rstrip("/")
RECURSIVE RStripSlash(_)
RStripSlash(s) ==
    IF s # <<>> /\ s[Len(s)] = "/"
    THEN RStripSlash(SubSeq(s, 1, Len(s) - 1)) ELSE s

\* x or d
OrDefault(x, d) == IF x = None \/ x = <<>> THEN d ELSE x

get_cfg(s) ==
    [ base_url            |-> RStripSlash(OrDefault(s.base_url, <<>>)),
      requestor_id        |-> s.requestor_id,
      message_password    |-> s.message_password,
      market_country_code |-> OrDefault(s.market_country_code, <<"I">>),
      primary_lang_id     |-> OrDefault(s.primary_lang, <<"I">>),
      target              |-> OrDefault(s.target, <<"P">>),
      chain_code          |-> OrDefault(s.chain_code, <<"C">>),
      bearer              |-> OrDefault(s.bearer_token, <<>>),
      product_type        |-> OrDefault(s.product_type, <<"M">>),
      category_code       |-> OrDefault(s.category_code, <<"1">>),
      departure_default   |-> OrDefault(s.departure_default, <<>>) ]

\* not v
Falsy(v) == v = None \/ v = <<>>

\* the condition of the first configuration check
ConfigIncomplete(cfg) ==
    \/ Falsy(cfg.base_url) \/ Falsy(cfg.bearer) \/ Falsy(cfg.target)
    \/ Falsy(cfg.primary_lang_id) \/ Falsy(cfg.market_country_code)
    \/ Falsy(cfg.requestor_id) \/ Falsy(cfg.message_password)
    \/ Falsy(cfg.chain_code)

\* the list `missing` of the second configuration check
ConfigMissing(cfg) ==
    { k \in { "base_url", "bearer", "target", "primary_lang_id",
              "market_country_code", "requestor_id", "message_password",
              "chain_code", "product_type", "category_code" } : Falsy(cfg[k]) }

(***************************************************************************)
(* Departure-airport resolution                                            *)
(***************************************************************************)
\* the cap of the candidate list
MaxDeps == 10

_extract_core(pc) == IF Falsy(pc) THEN <<>> ELSE Strip(SplitLeft(pc, "#"))

_to3(a) ==
    LET u == Strip(Upper(OrDefault(a, <<>>)))
    IN  IF Len(u) >= 3 THEN Take(u, 3) ELSE u

\* Code LIKE 'prefix%' (SQLite LIKE ignores ASCII case)
LikePrefix(code, prefix) == StartsWith(Upper(code), Upper(prefix))

\* the importer's airport of a product code: the three characters after '#'
extract_airport_from_code(code) ==
    IF Instr(code, "#") = 0 THEN None
    ELSE LET after == SplitRight(Strip(code), "#")
         IN  IF after = <<>> THEN None ELSE Upper(Take(after, 3))

\* the row upsert_departure writes for one period of a product
CacheRow(code, day, dur, city) ==
    LET dep3 == Take(Strip(Upper(OrDefault(extract_airport_from_code(code), <<>>))), 3)
    IN  [ product_code   |-> code,
          depart_airport |-> IF dep3 = <<>> THEN None ELSE dep3,
          depart_date    |-> DateText(day),
          duration_days  |-> dur,
          city_code      |-> city ]

\* the WHERE clause shared by the three departures_cache queries
BaseWhere(r, dest, prod_core) ==
    IF ~Falsy(prod_core) THEN LikePrefix(r.product_code, prod_core)
    ELSE r.city_code # None /\ Upper(r.city_code) = Upper(dest)

\* SELECT DISTINCT UPPER(SUBSTR(depart_airport,1,3)) over the rows, then
\* _fetch's {_to3(r[0]) for r in rows if r and r[0]}
_fetch(rows) ==
    { _to3(Upper(Substr(r.depart_airport, 1, 3))) :
        r \in { x \in rows : ~Falsy(x.depart_airport) } }

Between(r, start, end) ==
    TextLeq(start, r.depart_date) /\ TextLeq(r.depart_date, end)

\* :n is nights_val or None, NULL for 0 nights
Q1(cache, dest, start, end, nights_val, prod_core) ==
    _fetch({ r \in cache : /\ BaseWhere(r, dest, prod_core)
                           /\ Between(r, start, end)
                           /\ (nights_val = 0 \/ r.duration_days = nights_val) })

Q2(cache, dest, start, end, prod_core) ==
    _fetch({ r \in cache : BaseWhere(r, dest, prod_core) /\ Between(r, start, end) })

Q3(cache, dest, prod_core) ==
    _fetch({ r \in cache : BaseWhere(r, dest, prod_core) })

\* deps: the set returned; queries: the queries run, in order
_deps_from_departures_cache(cache, dest, start_iso, end_iso, nights_val, prod_core) ==
    IF ~cache.exists THEN [deps |-> {}, queries |-> <<>>]
    ELSE
      LET d1 == Q1(cache.rows, dest, start_iso, end_iso, nights_val, prod_core)
          d2 == IF d1 = {} THEN Q2(cache.rows, dest, start_iso, end_iso, prod_core)
                ELSE d1
          d3 == IF d2 = {} THEN Q3(cache.rows, dest, prod_core) ELSE d2
      IN  [ deps    |-> { d \in d3 : d # <<>> /\ Len(d) = 3 },
            queries |-> <<"q1">> \o (IF d1 = {} THEN <<"q2">> ELSE <<>>)
                                 \o (IF d2 = {} THEN <<"q3">> ELSE <<>>) ]

\* the OTAProduct fallback: the rows' Dep3, stripped, empty ones dropped
\* (no rows when the query raises, as it does where the table is missing)
LegacyDeps(catalog, product_core, destina) ==
    IF ~catalog.exists THEN {}
    ELSE
      LET pref == <<"0", "0", "0", "0">> \o destina
          hit(code) == IF product_core # <<>> THEN LikePrefix(code, product_core)
                       ELSE LikePrefix(code, pref)
          dep3(code) == Upper(Substr(code, Instr(code, "#") + 1, 3))
      IN  { Strip(dep3(c)) :
              c \in { x.Code : x \in { y \in catalog.rows :
                                         hit(y.Code) /\ dep3(y.Code) # <<>> } } }

\* sorted({_to3(a) for a in candidate_deps if a})[:10]
NormalizeDeps(deps) ==
    Take(SortedStrs({ _to3(a) : a \in { x \in deps : x # <<>> } }), MaxDeps)

(***************************************************************************)
(* State                                                                   *)
(***************************************************************************)
VARIABLES
    setting,           \* the setting_ota row
    departures_cache,  \* the table departures_cache, when it exists
    catalog,           \* the legacy table OTAProduct, when it exists
    pc,                \* position of the search in availability_search
    abort,             \* the abort(status, description) that ended the search
    req,               \* destina, start_date, end_date, nights, aptfrom, ...
    candidate_deps,    \* the airports to query
    lookups,           \* the lookups airport resolution ran, in order
    dep_i,             \* position of the per-airport loop
    posts,             \* the requests.post calls made, in order
    all_offers,
    all_warnings,
    groups_map,        \* dict product_core -> group, in insertion order
    off_i,             \* position of the aggregation loop
    groups,            \* the sorted groups handed to the template
    called,            \* the service function called last, with its argument
    returned,          \* what that call returned, or that it raised
    cancelled,         \* the caller of the search has gone away
    progress,          \* the dict progress of import_job
    RUNNING_FLAG,      \* the global RUNNING_FLAG of import_job
    workers            \* the import threads started, each with its position

vars == << setting, departures_cache, catalog, pc, abort, req, candidate_deps,
           lookups, dep_i, posts, all_offers, all_warnings, groups_map, off_i,
           groups, called, returned, cancelled, progress, RUNNING_FLAG, workers >>

\* the variables of the calls of the service functions
svc_vars == << called, returned >>

\* the variables of the import job
job_vars == << progress, RUNNING_FLAG, workers >>

\* the module-level progress of import_job.py; a time stamp is None or "set",
\* the heartbeat hb is None, "fresh" or "stale" (older than 60 seconds)
NoProgress ==
    [ rows |-> 0, running |-> FALSE, started_at |-> "None",
      finished_at |-> "None", total |-> 0, done |-> 0, current_file |-> "None",
      last_msg |-> "None", error |-> "None", hb |-> "None", _last_rows_seen |-> 0 ]

\* no import was ever started and no caller has gone away
NoJob ==
    /\ cancelled = FALSE
    /\ progress = NoProgress
    /\ RUNNING_FLAG = FALSE
    /\ workers = <<>>

db_vars == << setting, departures_cache, catalog >>

NoAbort == [status |-> 0, description |-> ""]

NoCall == [name |-> "none", arg |-> <<>>]
NoReturn == [raised |-> FALSE, value |-> <<>>]

NoReq ==
    [ product_core |-> <<>>, destina |-> <<>>, aptfrom |-> <<>>,
      start_date |-> EmptyDate, end_date |-> EmptyDate, end_arg |-> EmptyDate,
      nights |-> 0, currency |-> <<>> ]

(***************************************************************************)
(* Input, validation and airport resolution (lines 334-521)                *)
(***************************************************************************)
\* int(request.args.get("nights") or 0), 0 on any exception
NightsArg(a) == IF a.k = "int" THEN a.v ELSE 0

\* nights, recomputed from the dates when the parameter gives none
Nights(a) ==
    LET n0 == NightsArg(a.nights)
    IN  IF n0 <= 0 /\ DateTruthy(a.start_date) /\ DateTruthy(a.end_date)
        THEN IF IsIsoDate(a.start_date) /\ IsIsoDate(a.end_date)
                  /\ a.end_date.d > a.start_date.d
             THEN a.end_date.d - a.start_date.d
             ELSE 0
        ELSE n0

\* the locals of the search after the input section
Locals(a) ==
    [ product_core |-> _extract_core(a.product_core),
      destina      |-> Strip(Upper(a.destina)),
      aptfrom      |-> Strip(Upper(a.aptfrom)),
      start_date   |-> a.start_date,
      end_date     |-> IF ~DateTruthy(a.end_date) /\ IsIsoDate(a.start_date)
                       THEN DateText(a.start_date.d + Nights(a))
                       ELSE a.end_date,
      end_arg      |-> a.end_date,
      nights       |-> Nights(a),
      currency     |-> Upper(OrDefault(a.currency, <<"E", "U", "R">>)) ]

\* a validation that lets any night count through
ValidateAnyNights(r, cfg) ==
    IF Falsy(r.destina) \/ ~DateTruthy(r.start_date)
    THEN [status |-> 400, description |-> "Parametri ricerca non validi"]
    ELSE IF ~IsIsoDate(r.start_date)
    THEN [status |-> 400, description |-> "Formato data non valido (start_date)"]
    ELSE IF ConfigIncomplete(cfg)
    THEN [status |-> 500, description |-> "Configurazione API mancante/incompleta"]
    ELSE IF ConfigMissing(cfg) # {}
    THEN [status |-> 500, description |-> "Config mancante"]
    ELSE NoAbort

\* the abort of the validation section, NoAbort when validation passes
Validate(r, cfg) ==
    IF Falsy(r.destina) \/ ~DateTruthy(r.start_date) \/ r.nights <= 0
    THEN [status |-> 400, description |-> "Parametri ricerca non validi"]
    ELSE IF ~IsIsoDate(r.start_date)
    THEN [status |-> 400, description |-> "Formato data non valido (start_date)"]
    ELSE IF ConfigIncomplete(cfg)
    THEN [status |-> 500, description |-> "Configurazione API mancante/incompleta"]
    ELSE IF ConfigMissing(cfg) # {}
    THEN [status |-> 500, description |-> "Config mancante"]
    ELSE NoAbort

\* a resolution that consults the cache chain whether or not the caller
\* names an airport
ResolveByLookup(r, cfg, cache, cat) ==
    LET c    == _deps_from_departures_cache(
                    cache, r.destina, r.start_date, r.end_date, r.nights,
                    IF r.product_core = <<>> THEN None ELSE r.product_core)
        raw  == IF c.deps = {} THEN LegacyDeps(cat, r.product_core, r.destina)
                ELSE c.deps
        norm == NormalizeDeps(raw)
        look == c.queries \o (IF c.deps = {} THEN <<"legacy">> ELSE <<>>)
    IN  IF norm # <<>> THEN [deps |-> norm, lookups |-> look]
        ELSE IF ~Falsy(cfg.departure_default)
        THEN [ deps    |-> << _to3(cfg.departure_default) >>,
               lookups |-> look \o <<"default">> ]
        ELSE [deps |-> <<>>, lookups |-> look \o <<"default">>]

\* candidate_deps and the lookups made for it; deps = <<>> is the abort
\* "Nessun aeroporto di partenza noto ..."
ResolveAirports(r, cfg, cache, cat) ==
    IF r.aptfrom # <<>>
    THEN [deps |-> << _to3(r.aptfrom) >>, lookups |-> <<>>]
    ELSE
      LET c    == _deps_from_departures_cache(
                      cache, r.destina, r.start_date, r.end_date, r.nights,
                      IF r.product_core = <<>> THEN None ELSE r.product_core)
          raw  == IF c.deps = {} THEN LegacyDeps(cat, r.product_core, r.destina)
                  ELSE c.deps
          norm == NormalizeDeps(raw)
          look == c.queries \o (IF c.deps = {} THEN <<"legacy">> ELSE <<>>)
      IN  IF norm # <<>> THEN [deps |-> norm, lookups |-> look]
          ELSE IF ~Falsy(cfg.departure_default)
          THEN [ deps    |-> << _to3(cfg.departure_default) >>,
                 lookups |-> look \o <<"default">> ]
          ELSE [deps |-> <<>>, lookups |-> look \o <<"default">>]

NoAirport ==
    [ status |-> 400,
      description |-> "Nessun aeroporto di partenza noto in cache per la destinazione/prodotto selezionati" ]

\* a GET /availability/search with query arguments a, up to the fan-out
Search(a) ==
    /\ pc = "idle"
    /\ LET r   == Locals(a)
           cfg == get_cfg(setting)
           v   == Validate(r, cfg)
           res == ResolveAirports(r, cfg, departures_cache, catalog)
       IN  /\ req' = r
           /\ IF v # NoAbort
              THEN /\ pc' = "aborted"
                   /\ abort' = v
                   /\ UNCHANGED << candidate_deps, lookups >>
              ELSE IF res.deps = <<>>
              THEN /\ pc' = "aborted"
                   /\ abort' = NoAirport
                   /\ lookups' = res.lookups
                   /\ UNCHANGED candidate_deps
              ELSE /\ pc' = "fanout"
                   /\ candidate_deps' = res.deps
                   /\ lookups' = res.lookups
                   /\ UNCHANGED abort
    /\ dep_i' = 1
    /\ UNCHANGED << db_vars, svc_vars, job_vars, cancelled, posts, all_offers, all_warnings, groups_map, off_i, groups >>

(***************************************************************************)
(* Per-airport calls (lines 590-748)                                       *)
(***************************************************************************)
Warning(kind, dep, text) == [kind |-> kind, dep |-> dep, text |-> text]

\* act.get("AvailabilityStatus").lower()
StatusLower(st) ==
    CASE st = "AvailableForSale" -> "availableforsale"
      [] st = "AVAILABLE"        -> "available"
      [] st = "Available"        -> "available"
      [] st = "OnRequest"        -> "onrequest"
      [] OTHER                   -> st

\* the offer _parse_response builds from one Activity element
OfferOf(act, dep_code, r) ==
    [ start              |-> IF act.timespan.present THEN act.timespan.Start
                             ELSE r.start_date,
      end                |-> IF act.timespan.present THEN act.timespan.End
                             ELSE r.end_date,
      currency           |-> IF Falsy(act.currency_code) THEN r.currency
                             ELSE act.currency_code,
      product_name       |-> act.name,
      booking_code       |-> act.booking_code,
      total_price        |-> act.total,
      image              |-> act.image,
      flights            |-> act.flights,
      flight_direction   |-> act.direction,
      departure_location |-> dep_code,
      short_desc         |-> act.short_desc ]

\* f"{cd} {st}".strip() for the Error elements with a code or a short text
ErrorWarnings(errors) ==
    LET keep == SelectSeq(errors, LAMBDA e : Strip(e.ShortText) # <<>> \/ Strip(e.Code) # <<>>)
    IN  [ i \in 1..Len(keep) |->
            Warning("ota", <<>>, Strip(Strip(keep[i].Code) \o <<" ">> \o Strip(keep[i].ShortText))) ]

\* _parse_response of a well-formed document: (offers, warnings)
_parse_response(content, dep_code, r) ==
    LET bookable == SelectSeq(content.activities,
                        LAMBDA a : StatusLower(a.status) \in {"availableforsale", "available"})
    IN  [ offers   |-> [ i \in 1..Len(bookable) |-> OfferOf(bookable[i], dep_code, r) ],
          warnings |-> ErrorWarnings(content.errors) ]

\* a filter on the requested start only
OnRequestedStart(o, r) == Take10(o.start) = r.start_date

\* the filter on the requested dates
OnRequestedDates(o, r) ==
    Take10(o.start) = r.start_date /\ Take10(o.end) = r.end_date

\* a loop that parses the body of a response whatever its status
AfterCallAnyStatus(dep, out, r) ==
    IF out.kind = "network"
    THEN [offers |-> <<>>, warnings |-> << Warning("network", dep, <<>>) >>]
    ELSE IF ~out.content.wellformed
    THEN [offers |-> <<>>, warnings |-> << Warning("parse", dep, <<>>) >>]
    ELSE LET p == _parse_response(out.content, dep, r)
         IN  [ offers   |-> SelectSeq(p.offers, LAMBDA o : OnRequestedDates(o, r)),
               warnings |-> p.warnings ]

\* what one iteration of the loop over candidate_deps adds to all_offers and
\* all_warnings, given the outcome of its requests.post
AfterCall(dep, out, r) ==
    IF out.kind = "network"
    THEN [offers |-> <<>>, warnings |-> << Warning("network", dep, <<>>) >>]
    ELSE IF out.kind = "http"
    THEN [offers |-> <<>>, warnings |-> << Warning("http", dep, <<>>) >>]
    ELSE IF ~out.content.wellformed
    THEN [offers |-> <<>>, warnings |-> << Warning("parse", dep, <<>>) >>]
    ELSE LET p == _parse_response(out.content, dep, r)
         IN  [ offers   |-> SelectSeq(p.offers, LAMBDA o : OnRequestedDates(o, r)),
               warnings |-> p.warnings ]

(***************************************************************************)
(* Prices.  A total_price is the text of @AmountAfterTax: k = "none" is a  *)
(* missing attribute, k = "text" a text Decimal rejects, k = "num" the     *)
(* number v, k = "nan" the text 'NaN'.  A Decimal is k = "num", "inf" or   *)
(* "nan".                                                                  *)
(***************************************************************************)
Infinity == [k |-> "inf", v |-> 0]
NaN      == [k |-> "nan", v |-> 0]
Num(v)   == [k |-> "num", v |-> v]

_parse_price(x) ==
    IF x.k = "num" THEN Num(x.v)
    ELSE IF x.k = "nan" THEN NaN
    ELSE Infinity

\* Decimal a < b raises InvalidOperation when either is NaN
LtRaises(a, b) == a.k = "nan" \/ b.k = "nan"
PriceLt(a, b) ==
    \/ a.k = "num" /\ b.k = "inf"
    \/ a.k = "num" /\ b.k = "num" /\ a.v < b.v
\* Decimal a == b: NaN equals nothing
PriceEq(a, b) == a.k # "nan" /\ b.k # "nan" /\ a = b

(***************************************************************************)
(* Aggregation (lines 767-849)                                             *)
(***************************************************************************)
Misc == <<"_", "_", "M", "I", "S", "C", "_", "_">>

\* (product_core, dep_variant) of a booking code
_split_codes(booking_code) ==
    IF Falsy(booking_code) THEN [product_core |-> None, dep_variant |-> None]
    ELSE LET left == SplitLeft(booking_code, "|")
             rest == SplitRight(left, "#")
         IN  [ product_core |-> Strip(SplitLeft(left, "#")),
               dep_variant  |-> IF rest = None THEN None ELSE Strip(rest) ]

\* the OTAProduct lookup; False where the table or the columns are missing
_is_recommended(cat, product_core) ==
    /\ cat.exists
    /\ \E row \in cat.rows : row.Code = product_core /\ row.Recommended

\* position of key k in an insertion-ordered dict, 0 when absent
IndexOf(dict, field, k) ==
    IF \E i \in 1..Len(dict) : dict[i][field] = k
    THEN CHOOSE i \in 1..Len(dict) : dict[i][field] = k
    ELSE 0

\* a key that is the booking code as it stands
GroupKeyUnsplit(o) ==
    IF Falsy(o.booking_code) THEN Misc ELSE o.booking_code

GroupKey(o) ==
    LET pcore == _split_codes(o.booking_code).product_core
    IN  IF Falsy(pcore) THEN Misc ELSE pcore

\* the group created for the first offer of a product
NewGroup(o, r, cat) ==
    [ product_core   |-> GroupKey(o),
      name           |-> OrDefault(o.product_name, GroupKey(o)),
      currency       |-> OrDefault(o.currency, r.currency),
      image          |-> o.image,
      flights        |-> <<>>,
      short_desc     |-> o.short_desc,
      offers         |-> <<>>,
      is_recommended |-> _is_recommended(cat, GroupKey(o)),
      min_price      |-> _parse_price(o.total_price) ]

\* an update that takes over the price of a dearer offer
UpdateGroupDearer(grp, o, r) ==
    LET price  == _parse_price(o.total_price)
        dearer == PriceLt(grp.min_price, price)
    IN  [ grp EXCEPT
            !.min_price  = IF dearer THEN price ELSE @,
            !.currency   = IF dearer
                           THEN OrDefault(o.currency, OrDefault(@, r.currency))
                           ELSE @,
            !.image      = IF Falsy(@) /\ ~Falsy(o.image) THEN o.image ELSE @,
            !.short_desc = IF Falsy(@) /\ ~Falsy(o.short_desc) THEN o.short_desc
                           ELSE @ ]

\* an update that takes over the image and the description of every offer
\* that has them
UpdateGroupLastFound(grp, o, r) ==
    LET price   == _parse_price(o.total_price)
        cheaper == PriceLt(price, grp.min_price)
    IN  [ grp EXCEPT
            !.min_price  = IF cheaper THEN price ELSE @,
            !.currency   = IF cheaper
                           THEN OrDefault(o.currency, OrDefault(@, r.currency))
                           ELSE @,
            !.image      = IF ~Falsy(o.image) THEN o.image ELSE @,
            !.short_desc = IF ~Falsy(o.short_desc) THEN o.short_desc ELSE @ ]

\* the update of an existing group by a later offer of its product
UpdateGroup(grp, o, r) ==
    LET price   == _parse_price(o.total_price)
        cheaper == PriceLt(price, grp.min_price)
    IN  [ grp EXCEPT
            !.min_price  = IF cheaper THEN price ELSE @,
            !.currency   = IF cheaper
                           THEN OrDefault(o.currency, OrDefault(@, r.currency))
                           ELSE @,
            !.image      = IF Falsy(@) /\ ~Falsy(o.image) THEN o.image ELSE @,
            !.short_desc = IF Falsy(@) /\ ~Falsy(o.short_desc) THEN o.short_desc
                           ELSE @ ]

\* the flight solution created for the first offer of a departure variant
NewSolution(pcore, depv, o) ==
    [ direction    |-> o.flight_direction,
      min_price    |-> _parse_price(o.total_price),
      depv         |-> depv,
      package_code |-> pcore \o <<"#">> \o depv,
      samples      |-> o.flights ]

\* the update of an existing flight solution
UpdateSolution(sol, o) ==
    LET price == _parse_price(o.total_price)
    IN  [ sol EXCEPT
            !.min_price = IF PriceLt(price, @) THEN price ELSE @,
            !.samples   = IF o.flights # <<>> THEN o.flights ELSE @ ]

\* a flights collection that gets a new solution for every offer
AppendSolution(flights, pcore, depv, o) ==
    Append(flights, NewSolution(pcore, depv, o))

\* the flights dict of a group after the offer
UpsertSolution(flights, pcore, depv, o) ==
    LET j == IndexOf(flights, "depv", depv)
    IN  IF j = 0 THEN Append(flights, NewSolution(pcore, depv, o))
        ELSE [flights EXCEPT ![j] = UpdateSolution(@, o)]

\* one iteration of the loop over all_offers: raised is TRUE when a price
\* comparison raises; gm is groups_map as the iteration leaves it
FoldOffer(gm, o, r, cat) ==
    LET pcore == GroupKey(o)
        depv  == _split_codes(o.booking_code).dep_variant
        price == _parse_price(o.total_price)
        i     == IndexOf(gm, "product_core", pcore)
    IN  IF i # 0 /\ LtRaises(price, gm[i].min_price)
        THEN [raised |-> TRUE, gm |-> gm]
        ELSE
          LET gm1 == IF i = 0 THEN Append(gm, NewGroup(o, r, cat))
                     ELSE [gm EXCEPT ![i] = UpdateGroup(@, o, r)]
              k   == IF i = 0 THEN Len(gm1) ELSE i
              j   == IF Falsy(depv) THEN 0 ELSE IndexOf(gm1[k].flights, "depv", depv)
          IN  IF j # 0 /\ LtRaises(price, gm1[k].flights[j].min_price)
              THEN [raised |-> TRUE, gm |-> gm1]
              ELSE [ raised |-> FALSE,
                     gm |-> [ gm1 EXCEPT
                                ![k].flights = IF Falsy(depv) THEN @
                                               ELSE UpsertSolution(@, pcore, depv, o),
                                ![k].offers  = Append(@, o) ] ]

(***************************************************************************)
(* Ranking (lines 851-868).  list.sort and sorted are CPython's sort of a  *)
(* short list: the leading run is found and reversed when it descends,     *)
(* then the rest is inserted by binary search.  Keys are tuples; comparing *)
(* two tuples compares their first differing components, which raises for  *)
(* a NaN price.                                                            *)
(***************************************************************************)
\* a sort key of the groups that leaves the recommended flag out
GroupSortKeyByPrice(g) ==
    [ text  |-> OrDefault(g.name, <<>>),
      price |-> g.min_price,
      c0    |-> 0 ]

GroupSortKey(g) ==
    [ text  |-> OrDefault(g.name, <<>>),
      price |-> g.min_price,
      c0    |-> IF g.is_recommended THEN 0 ELSE 1 ]

SolutionSortKey(sol) == [text |-> sol.package_code, price |-> sol.min_price, c0 |-> 0]

\* a < b on keys: "T", "F", or "E" when the comparison raises
KeyLt(a, b) ==
    IF a.c0 # b.c0 THEN (IF a.c0 < b.c0 THEN "T" ELSE "F")
    ELSE IF ~PriceEq(a.price, b.price)
    THEN (IF LtRaises(a.price, b.price) THEN "E"
          ELSE IF PriceLt(a.price, b.price) THEN "T" ELSE "F")
    ELSE IF StrLess(a.text, b.text) THEN "T" ELSE "F"

\* last position of the run that starts the list; 0 when a comparison raises
RECURSIVE RunEnd(_, _, _)
RunEnd(keys, i, desc) ==
    IF i > Len(keys) THEN Len(keys)
    ELSE LET c == KeyLt(keys[i], keys[i - 1])
         IN  IF c = "E" THEN 0
             ELSE IF (c = "T") = desc THEN RunEnd(keys, i + 1, desc)
             ELSE i - 1

\* where the binary search puts keys[pivot] among xs[l..r-1]; 0 when a
\* comparison raises
RECURSIVE BinPos(_, _, _, _, _)
BinPos(keys, xs, pivot, l, r) ==
    IF l >= r THEN l
    ELSE LET p == l + ((r - l) \div 2)
             c == KeyLt(keys[pivot], keys[xs[p]])
         IN  IF c = "E" THEN 0
             ELSE IF c = "T" THEN BinPos(keys, xs, pivot, l, p)
             ELSE BinPos(keys, xs, pivot, p + 1, r)

\* xs with xs[start..] inserted one by one; <<>> when a comparison raises
RECURSIVE BinarySort(_, _, _)
BinarySort(keys, xs, start) ==
    IF start > Len(xs) THEN xs
    ELSE LET pos == BinPos(keys, xs, xs[start], 1, start)
         IN  IF pos = 0 THEN <<>>
             ELSE BinarySort(keys,
                             SubSeq(xs, 1, pos - 1) \o << xs[start] >>
                               \o SubSeq(xs, pos, start - 1)
                               \o SubSeq(xs, start + 1, Len(xs)),
                             start + 1)

\* the order the sort leaves: perm[i] is the old position of the element
\* now at i; raised when a comparison raises
PySort(keys) ==
    LET n  == Len(keys)
        id == [i \in 1..n |-> i]
    IN  IF n < 2 THEN [raised |-> FALSE, perm |-> id]
        ELSE
          LET c == KeyLt(keys[2], keys[1])
              e == RunEnd(keys, 3, c = "T")
              xs1 == IF c = "T"
                     THEN [i \in 1..n |-> IF i <= e THEN e + 1 - i ELSE i]
                     ELSE id
              out == BinarySort(keys, xs1, e + 1)
          IN  IF c = "E" \/ e = 0 \/ out = <<>>
              THEN [raised |-> TRUE, perm |-> id]
              ELSE [raised |-> FALSE, perm |-> out]

\* the list sorted by the keys of its elements
SortedBy(list, keys) ==
    LET srt == PySort(keys)
    IN  [ raised |-> srt.raised,
          list   |-> [i \in 1..Len(list) |-> list[srt.perm[i]]] ]

\* groups: the groups sorted, each with its flight_solutions, sorted
RankGroups(gm) ==
    LET gs   == SortedBy(gm, [i \in 1..Len(gm) |-> GroupSortKey(gm[i])])
        sols(g) == SortedBy(g.flights,
                            [i \in 1..Len(g.flights) |-> SolutionSortKey(g.flights[i])])
    IN  [ raised |-> gs.raised \/ \E i \in 1..Len(gm) : sols(gm[i]).raised,
          list   |-> [ i \in 1..Len(gm) |->
                         [ group |-> gs.list[i],
                           flight_solutions |-> sols(gs.list[i]).list ] ] ]

\* "Nessuna disponibilita' trovata per gli aeroporti: " + ", ".join(candidate_deps)
NoAvailabilityWarning(deps) == Warning("no_availability", <<>>, Join(deps))

\* a meta["raw_errors"] copied when meta is built, before the aggregation
RawErrorsCopy == SelectSeq(all_warnings, LAMBDA w : w.kind # "no_availability")

\* meta["raw_errors"] is the list all_warnings itself, not a copy: what is
\* appended to all_warnings later is in it
meta_raw_errors == all_warnings

(***************************************************************************)
(* The steps of a search after resolution                                  *)
(***************************************************************************)
\* a loop that posts again to an airport whose call raised
NextDepRetry(i, out) == IF out.kind = "network" THEN i ELSE i + 1

\* a loop that leaves out every second airport
NextDepSkip(i, out) == i + 2

\* the loop over candidate_deps goes on to the next airport whatever the
\* outcome of the call (every branch ends the iteration)
NextDep(i, out) == i + 1

\* one iteration of the loop over candidate_deps: the POST for the airport
\* at dep_i has the outcome out
Call(out) ==
    /\ pc = "fanout"
    /\ LET dep == candidate_deps[dep_i]
           a   == AfterCall(dep, out, req)
       IN  /\ posts' = Append(posts, [dep |-> dep, out |-> out])
           /\ all_offers' = all_offers \o a.offers
           /\ all_warnings' = all_warnings \o a.warnings
    /\ dep_i' = NextDep(dep_i, out)
    /\ pc' = IF dep_i' > Len(candidate_deps) THEN "aggregate" ELSE "fanout"
    /\ UNCHANGED << db_vars, svc_vars, job_vars, cancelled, abort, req, candidate_deps, lookups, groups_map,
                    off_i, groups >>

\* a loop over all_offers that visits the offers last to first
AggregateBackwards ==
    /\ pc = "aggregate"
    /\ off_i <= Len(all_offers)
    /\ LET f == FoldOffer(groups_map, all_offers[Len(all_offers) + 1 - off_i], req, catalog)
       IN  /\ groups_map' = f.gm
           /\ pc' = IF f.raised THEN "crashed" ELSE "aggregate"
    /\ off_i' = off_i + 1
    /\ UNCHANGED << db_vars, svc_vars, job_vars, cancelled, abort, req, candidate_deps, lookups, dep_i, posts,
                    all_offers, all_warnings, groups >>

\* one iteration of the loop over all_offers
Aggregate ==
    /\ pc = "aggregate"
    /\ off_i <= Len(all_offers)
    /\ LET f == FoldOffer(groups_map, all_offers[off_i], req, catalog)
       IN  /\ groups_map' = f.gm
           /\ pc' = IF f.raised THEN "crashed" ELSE "aggregate"
    /\ off_i' = off_i + 1
    /\ UNCHANGED << db_vars, svc_vars, job_vars, cancelled, abort, req, candidate_deps, lookups, dep_i, posts,
                    all_offers, all_warnings, groups >>

\* the sort of the groups, the warning of an empty result, the rendering
Rank ==
    /\ pc = "aggregate"
    /\ off_i > Len(all_offers)
    /\ LET rk == RankGroups(groups_map)
       IN  IF rk.raised
           THEN /\ pc' = "crashed"
                /\ UNCHANGED << groups, all_warnings >>
           ELSE /\ pc' = "done"
                /\ groups' = rk.list
                /\ all_warnings' =
                     IF rk.list = <<>>
                     THEN Append(all_warnings, NoAvailabilityWarning(candidate_deps))
                     ELSE all_warnings
    /\ UNCHANGED << db_vars, svc_vars, job_vars, cancelled, abort, req, candidate_deps, lookups, dep_i, posts,
                    all_offers, groups_map, off_i >>

(***************************************************************************)
(* Inputs of the model                                                     *)
(***************************************************************************)
RMF == <<"R", "M", "F">>
Product(dep) == <<"0", "0", "0", "0">> \o RMF \o <<"#">> \o dep

FullSetting ==
    [ base_url |-> <<"X", "/">>, requestor_id |-> <<"I">>,
      message_password |-> <<"P">>, market_country_code |-> <<"I">>,
      primary_lang |-> <<"I">>, target |-> <<"P">>, chain_code |-> <<"C">>,
      bearer_token |-> <<"B">>, product_type |-> <<"M">>,
      category_code |-> <<"1">>, departure_default |-> <<"V", "C", "E">> ]

Settings ==
    { FullSetting,
      [FullSetting EXCEPT !.departure_default = <<>>],
      [FullSetting EXCEPT !.target = None, !.chain_code = <<>>],
      [FullSetting EXCEPT !.bearer_token = None],
      [FullSetting EXCEPT !.base_url = <<"/">>],
      [FullSetting EXCEPT !.requestor_id = None] }

\* rows of departures_cache; the searches of the model ask for day 10, 7 nights
CacheRows ==
    { CacheRow(Product(<<"B", "G", "Y">>), 10, 7, RMF),
      CacheRow(Product(<<"M", "X", "P", "1">>), 12, 7, RMF),
      CacheRow(Product(<<"F", "C", "O">>), 12, 10, RMF),
      CacheRow(Product(<<"L", "I", "N">>), 30, 7, RMF),
      CacheRow(Product(<<"M", "I">>), 10, 7, RMF),
      CacheRow(Product(<<"M", "I">>), 12, 10, RMF),
      CacheRow(<<"0", "0", "0", "0">> \o RMF, 10, 7, RMF),
      CacheRow(<<"0", "0", "0", "0", "N", "C", "E", "#", "V", "C", "E">>, 10, 7,
               <<"N", "C", "E">>) }

\* a cache with more airports than the cap of the candidate list
BigCache ==
    { CacheRow(Product(<<c, "G", "Y">>), 10, 7, RMF) :
        c \in {"B", "C", "E", "F", "G", "I", "L", "M", "N", "O", "P"} }

MaxCacheRows == 2

Table(rows) == [rows |-> rows, exists |-> TRUE]
NoTable == [rows |-> {}, exists |-> FALSE]

Caches ==
    { Table(c) : c \in { x \in SUBSET CacheRows : Cardinality(x) <= MaxCacheRows } }
    \cup { Table(BigCache), NoTable }

Catalogs ==
    { NoTable, Table({}),
      Table({ [Code |-> Product(<<"L", "I", "N">>), Recommended |-> FALSE],
               [Code |-> <<"0", "0", "0", "0">> \o RMF, Recommended |-> TRUE] }),
      Table({ [Code |-> Product(<<"M", "I">>), Recommended |-> FALSE] }) }

NightsNone == [k |-> "none", v |-> 0]
NightsInt(v) == [k |-> "int", v |-> v]

Args(apt, dest, start, end, nights, pcore) ==
    [ product_core |-> pcore, destina |-> dest, aptfrom |-> apt, start_date |-> start,
      end_date |-> end, nights |-> nights, currency |-> <<>> ]

\* the query arguments of the searches that go through the per-airport calls
SearchArgs ==
    { Args(apt, dest, start, end, nights, <<>>) :
        apt \in {<<>>, <<"b", "g", "y", "X">>},
        dest \in {<<>>, RMF},
        start \in {EmptyDate, DateText(10)},
        end \in {EmptyDate, DateText(17), DateTimeText(17)},
        nights \in {NightsNone, NightsInt(7)} }

\* the query arguments of the searches of the resolution-only specification
ResolveArgs ==
    { Args(apt, dest, start, end, nights, pcore) :
        apt \in {<<>>, <<"b", "g", "y", "X">>, <<"M", "I">>},
        dest \in {<<>>, RMF},
        start \in {BadDate, DateText(10)},
        end \in {EmptyDate, DateText(17)},
        nights \in {NightsInt(0), NightsInt(7)},
        pcore \in {<<>>, Product(<<"B", "G", "Y">>)} }

NoTimeSpan == [present |-> FALSE, Start |-> NoneDate, End |-> NoneDate]
TimeSpan(start, end) == [present |-> TRUE, Start |-> start, End |-> end]

Activity(status, bc, total, cur, ts, flights) ==
    [ total |-> total, status |-> status, name |-> None, timespan |-> ts,
      currency_code |-> cur, booking_code |-> bc, image |-> None,
      flights |-> flights, direction |-> None, short_desc |-> None ]

Amount(v) == [k |-> "num", v |-> v]
NoAmount  == [k |-> "none", v |-> 0]
BadAmount == [k |-> "text", v |-> 0]
NaNAmount == [k |-> "nan", v |-> 0]

EUR == <<"E", "U", "R">>

BookingCode(dep) == Product(dep) \o <<"|", "1">>

\* the activities of the responses of the full search
SearchActivities ==
    { Activity("AvailableForSale", BookingCode(<<"B", "G", "Y", "1">>),
               Amount(250), None, NoTimeSpan, <<>>),
      Activity("AVAILABLE", None, Amount(300), None,
               TimeSpan(DateTimeText(10), DateTimeText(17)), <<>>),
      Activity("Available", BookingCode(<<"B", "G", "Y", "1">>),
               Amount(250), None, TimeSpan(DateText(10), DateText(18)), <<>>),
      Activity("Available", BookingCode(<<"B", "G", "Y", "1">>),
               Amount(250), None, TimeSpan(DateText(9), DateText(17)), <<>>),
      Activity("OnRequest", BookingCode(<<"B", "G", "Y", "1">>),
               Amount(250), None, NoTimeSpan, <<>>) }

\* the activities of the responses of the aggregation-only specification:
\* two departure variants of one product, a product without variant and
\* an activity without booking code, at their prices
AggActivities ==
    { Activity("AvailableForSale", bc, pr.total, pr.cur, NoTimeSpan, pr.flights) :
        bc \in { BookingCode(<<"B", "G", "Y", "1">>),
                 BookingCode(<<"M", "X", "P", "1">>), None },
        pr \in { [total |-> Amount(250), flights |-> <<"seg250">>, cur |-> None],
                 [total |-> Amount(300), flights |-> <<"seg300">>, cur |-> <<"U", "S", "D">>],
                 [total |-> BadAmount, flights |-> <<>>, cur |-> None],
                 [total |-> NaNAmount, flights |-> <<"segNaN">>, cur |-> None] } }
    \cup { Activity("Available", <<"0", "0", "0", "0">> \o RMF \o <<"|", "1">>, Amount(250),
                    None, NoTimeSpan, <<>>) }

SeqsUpTo(S, n) == UNION { [1..m -> S] : m \in 0..n }

OtaError == [Code |-> <<"1">>, ShortText |-> <<"N", "O">>]

Malformed == [errors |-> <<>>, activities |-> <<>>, wellformed |-> FALSE]

Contents(acts, n) ==
    { [errors |-> e, activities |-> a, wellformed |-> TRUE] :
        e \in {<<>>, <<OtaError>>}, a \in SeqsUpTo(acts, n) } \cup {Malformed}

\* the outcomes of a requests.post: an exception, a response with a status
\* other than 200, a response with status 200; a response has a body
\* whatever its status
Outcomes(acts, n) ==
    { [kind |-> "network", content |-> Malformed] }
    \cup { [kind |-> k, content |-> c] : k \in {"http", "ok"}, c \in Contents(acts, n) }

(***************************************************************************)
(* Specifications                                                          *)
(***************************************************************************)
Idle ==
    /\ pc = "idle"
    /\ abort = NoAbort
    /\ req = NoReq
    /\ candidate_deps = <<>>
    /\ lookups = <<>>
    /\ dep_i = 1
    /\ posts = <<>>
    /\ all_offers = <<>>
    /\ all_warnings = <<>>
    /\ groups_map = <<>>
    /\ off_i = 1
    /\ groups = <<>>
    /\ called = NoCall
    /\ returned = NoReturn
    /\ NoJob

\* the full search over a small database
Init ==
    /\ setting \in Settings
    /\ departures_cache \in
         { Table({}),
           Table({ CacheRow(Product(<<"B", "G", "Y">>), 10, 7, RMF),
                   CacheRow(Product(<<"M", "X", "P", "1">>), 12, 7, RMF) }) }
    /\ catalog \in { NoTable }
    /\ Idle

Request == \E a \in SearchArgs : Search(a)

Respond == \E out \in Outcomes(SearchActivities, MaxActs) : Call(out)

Next == Request \/ Respond \/ Aggregate \/ Rank

Spec == Init /\ [][Next]_vars

\* validation and airport resolution alone, over many databases and requests
InitResolve ==
    /\ setting \in { FullSetting, [FullSetting EXCEPT !.departure_default = <<>>] }
    /\ departures_cache \in Caches
    /\ catalog \in Catalogs
    /\ Idle

RequestAny == \E a \in ResolveArgs : Search(a)

NextResolve == RequestAny

SpecResolve == InitResolve /\ [][NextResolve]_vars

\* the aggregation of the offers of one response, from the end of the
\* per-airport loop of a search for one explicit airport
AggArgs == Args(<<"B", "G", "Y">>, RMF, DateText(10), EmptyDate, NightsInt(7), <<>>)

InitAgg ==
    /\ setting = FullSetting
    /\ departures_cache = Table({})
    /\ catalog = Table({ [Code |-> <<"0", "0", "0", "0">> \o RMF, Recommended |-> TRUE] })
    /\ req = Locals(AggArgs)
    /\ abort = NoAbort
    /\ candidate_deps = ResolveAirports(Locals(AggArgs), get_cfg(FullSetting),
                                        Table({}), NoTable).deps
    /\ lookups = <<>>
    /\ dep_i = 2
    /\ \E a \in SeqsUpTo(AggActivities, MaxOffers) :
         LET out == [ kind |-> "ok",
                      content |-> [errors |-> <<>>, activities |-> a, wellformed |-> TRUE] ]
             got == AfterCall(candidate_deps[1], out, req)
         IN  /\ posts = << [dep |-> candidate_deps[1], out |-> out] >>
             /\ all_offers = got.offers
             /\ all_warnings = got.warnings
    /\ pc = "aggregate"
    /\ groups_map = <<>>
    /\ off_i = 1
    /\ groups = <<>>
    /\ called = NoCall
    /\ returned = NoReturn
    /\ NoJob

NextAgg == Aggregate \/ Rank

SpecAgg == InitAgg /\ [][NextAgg]_vars

\* the activities of the responses of the specification of the group's
\* picture and text: of one product or without booking code, each with or
\* without an image URL and a short description
ShownActivities ==
    { [ Activity("AvailableForSale", bc, Amount(250), None, NoTimeSpan, <<>>)
          EXCEPT !.image = sh.image, !.short_desc = sh.short_desc ] :
        bc \in { BookingCode(<<"B", "G", "Y", "1">>), None },
        sh \in { [image |-> None, short_desc |-> None],
                 [image |-> <<"a">>, short_desc |-> None],
                 [image |-> None, short_desc |-> <<"x">>],
                 [image |-> <<"b">>, short_desc |-> <<"y">>] } }

\* the aggregation of the offers of one response, which differ in image and
\* short description
InitShown ==
    /\ setting = FullSetting
    /\ departures_cache = Table({})
    /\ catalog = NoTable
    /\ req = Locals(AggArgs)
    /\ abort = NoAbort
    /\ candidate_deps = ResolveAirports(Locals(AggArgs), get_cfg(FullSetting),
                                        Table({}), NoTable).deps
    /\ lookups = <<>>
    /\ dep_i = 2
    /\ \E a \in SeqsUpTo(ShownActivities, MaxOffers) :
         LET out == [ kind |-> "ok",
                      content |-> [errors |-> <<>>, activities |-> a, wellformed |-> TRUE] ]
             got == AfterCall(candidate_deps[1], out, req)
         IN  /\ posts = << [dep |-> candidate_deps[1], out |-> out] >>
             /\ all_offers = got.offers
             /\ all_warnings = got.warnings
    /\ pc = "aggregate"
    /\ groups_map = <<>>
    /\ off_i = 1
    /\ groups = <<>>
    /\ called = NoCall
    /\ returned = NoReturn
    /\ NoJob

NextShown == Aggregate \/ Rank

SpecShown == InitShown /\ [][NextShown]_vars

\* the activities of the responses of the ranking specification: three
\* products, one of them in two departure variants, at their prices
RankCode(city, dep) == <<"0", "0", "0", "0">> \o city \o <<"#">> \o dep \o <<"|", "1">>

RankActivities ==
    { Activity("AvailableForSale", bc, total, None, NoTimeSpan, <<>>) :
        bc \in { RankCode(RMF, <<"B", "G", "Y", "1">>),
                 RankCode(<<"N", "C", "E">>, <<"M", "X", "P", "1">>),
                 RankCode(<<"N", "C", "E">>, <<"B", "G", "Y", "1">>),
                 RankCode(<<"L", "I", "N">>, <<"B", "G", "Y", "1">>) },
        total \in { Amount(250), Amount(300), NaNAmount } }

\* the ranking of the offers of one response, from the end of the
\* per-airport loop of a search for one explicit airport; the product
\* 0000RMF is recommended
InitRank ==
    /\ setting = FullSetting
    /\ departures_cache = Table({})
    /\ catalog = Table({ [Code |-> <<"0", "0", "0", "0">> \o RMF, Recommended |-> TRUE] })
    /\ req = Locals(AggArgs)
    /\ abort = NoAbort
    /\ candidate_deps = ResolveAirports(Locals(AggArgs), get_cfg(FullSetting),
                                        Table({}), NoTable).deps
    /\ lookups = <<>>
    /\ dep_i = 2
    /\ \E a \in SeqsUpTo(RankActivities, MaxOffers) :
         LET out == [ kind |-> "ok",
                      content |-> [errors |-> <<>>, activities |-> a, wellformed |-> TRUE] ]
             got == AfterCall(candidate_deps[1], out, req)
         IN  /\ posts = << [dep |-> candidate_deps[1], out |-> out] >>
             /\ all_offers = got.offers
             /\ all_warnings = got.warnings
    /\ pc = "aggregate"
    /\ groups_map = <<>>
    /\ off_i = 1
    /\ groups = <<>>
    /\ called = NoCall
    /\ returned = NoReturn
    /\ NoJob

NextRank == Aggregate \/ Rank

SpecRank == InitRank /\ [][NextRank]_vars

(***************************************************************************)
(* The availability parsers of the services (ota_xml.py, ota_io.py) and    *)
(* the product availability page (products.py).  A document is             *)
(* [wellformed, errors, activities]; an activity holds the Total of its    *)
(* ActivityRate, the Total of its ActivityPrice, the first Total found     *)
(* anywhere else under it (TPA_Extensions included) and the other named    *)
(* fields of its TPA_Extensions block.  An absent attribute is None.       *)
(***************************************************************************)
Returns(v) == [raised |-> FALSE, value |-> v]
Raises(e) == [raised |-> TRUE, value |-> e]

NoTotal == [after |-> None, present |-> FALSE, cur |-> None, before |-> None]
TotalEl(after, before) == [after |-> after, present |-> TRUE, cur |-> EUR, before |-> before]

NoField == [after |-> None, present |-> FALSE, price |-> None, cur |-> None,
            before |-> None, amount |-> None]
Field(after, before, price, amount) ==
    [after |-> after, present |-> TRUE, price |-> price, cur |-> None,
     before |-> before, amount |-> amount]

\* ext.find(".//ota:{tag}"): a Total under TPA_Extensions is a Total under
\* the activity, found before the block is looked at
ExtFind(ext, tag) == IF tag = "Total" THEN NoField ELSE ext.fields[tag]

\* the loop over the named fields of TPA_Extensions: the first field found
\* with an amount, if there is one
NoPick == [currency |-> <<>>, amount |-> <<>>, found |-> FALSE]

RECURSIVE ExtPick(_, _)
ExtPick(ext, tags) ==
    IF tags = <<>> THEN NoPick
    ELSE LET cand == ExtFind(ext, Head(tags))
             a    == OrDefault(cand.after,
                       OrDefault(cand.before, OrDefault(cand.price, cand.amount)))
         IN  IF cand.present /\ ~Falsy(a)
             THEN [currency |-> OrDefault(cand.cur, <<>>), amount |-> a, found |-> TRUE]
             ELSE ExtPick(ext, Tail(tags))

\* _pick_price of ota_xml.py: (amount, currency) of an activity
_pick_price(node) ==
    LET tot == IF node.rate.present THEN node.rate
               ELSE IF node.price.present THEN node.price
               ELSE node.other
        ext == IF ~tot.present /\ node.ext.present
               THEN ExtPick(node.ext, <<"Total", "TotalPrice", "GrossAmount", "Amount">>)
               ELSE NoPick
    IN  IF ext.found THEN [currency |-> ext.currency, amount |-> ext.amount]
        ELSE IF tot.present
        THEN [ currency |-> OrDefault(tot.cur, <<>>),
               amount   |-> OrDefault(tot.after, OrDefault(tot.before, <<>>)) ]
        ELSE [currency |-> <<>>, amount |-> <<>>]

ParseFailure(code, text) ==
    [ok |-> FALSE, error_code |-> code, error_text |-> text, rooms |-> <<>>]

ParseSuccess(rooms) ==
    [ok |-> TRUE, error_code |-> None, error_text |-> None, rooms |-> rooms]

\* the text of the exception of the XML parser
SyntaxErrorText == <<"X", "M", "L">>

\* parse_availability_xml of ota_xml.py
parse_availability_xml(doc) ==
    IF ~doc.wellformed THEN Returns(ParseFailure(<<"P", "A", "R", "S", "E">>, SyntaxErrorText))
    ELSE IF doc.errors # <<>>
    THEN Returns(ParseFailure(doc.errors[1].Code, doc.errors[1].ShortText))
    ELSE Returns(ParseSuccess(
           [ i \in 1..Len(doc.activities) |->
               [ currency |-> OrDefault(_pick_price(doc.activities[i]).currency, <<>>),
                 price    |-> OrDefault(_pick_price(doc.activities[i]).amount, <<>>) ] ]))

\* parse_availability_xml of ota_io.py: ET.fromstring is not guarded, and
\* total_el.get is called on the Total of the ActivityRate also where
\* there is none
io_parse_availability_xml(doc) ==
    IF ~doc.wellformed THEN Raises("XMLSyntaxError")
    ELSE IF doc.errors # <<>>
    THEN Returns(ParseFailure(doc.errors[1].Code, doc.errors[1].ShortText))
    ELSE IF \E i \in 1..Len(doc.activities) : ~doc.activities[i].rate.present
    THEN Raises("AttributeError")
    ELSE Returns(ParseSuccess(
           [ i \in 1..Len(doc.activities) |->
               [ currency |-> OrDefault(doc.activities[i].rate.cur, <<>>),
                 price    |-> OrDefault(OrDefault(doc.activities[i].rate.after,
                                                  doc.activities[i].rate.before), <<>>) ] ]))

\* the request and the parse of ota_product_availability of products.py:
\* only requests.RequestException is caught
ota_product_availability(outcome) ==
    IF outcome.kind = "network"
    THEN Returns(ParseFailure(<<"C", "O", "N", "N", "E", "C", "T", "I", "O", "N">>,
                              <<"E">>))
    ELSE io_parse_availability_xml(outcome.content)

(***************************************************************************)
(* parse_ota_descriptive_detail: the lists and the duration of a product.  *)
(* A number read from the document is [k, v]: k "absent" when the node or  *)
(* attribute is missing, "int" when int() accepts its text, "bad" when it  *)
(* does not.                                                               *)
(***************************************************************************)
Absent == [k |-> "absent", v |-> 0]
IntText(n) == [k |-> "int", v |-> n]
Bad == [k |-> "bad", v |-> 0]

\* nights_val = None
NoNights == [n |-> 0, found |-> FALSE]
NightsVal(n) == [n |-> n, found |-> TRUE]

\* 1) ".//*[local-name()='*'][@Nights][1]": the first element whose local
\* name equals the text "*" and that carries a Nights attribute
nights_by_attribute(doc) ==
    IF doc.attr_el.present /\ doc.attr_el.name = "*" /\ doc.attr_el.nights.k = "int"
    THEN NightsVal(doc.attr_el.nights.v)
    ELSE NoNights

\* 2) the first <Nights> node with text
nights_by_node(doc) ==
    IF doc.node_nights.k = "int" THEN NightsVal(doc.node_nights.v) ELSE NoNights

\* 3) the first Duration-like element: its digits count as nights when the
\* unit says nights, as days less one when the unit says days, and else
\* when the raw text itself reads "<digits> nights"
nights_by_duration(doc) ==
    LET durn == doc.durn IN
    IF ~durn.present \/ durn.digits.k # "int" THEN NoNights
    ELSE IF durn.unit = "nights" THEN NightsVal(durn.digits.v)
    ELSE IF durn.unit = "days"
         THEN NightsVal(IF durn.digits.v - 1 > 0 THEN durn.digits.v - 1 ELSE 0)
    ELSE IF durn.says_nights THEN NightsVal(durn.digits.v)
    ELSE NoNights

\* 4) LengthOfStay: its text, else its Nights / Duration / Days attribute,
\* Days alone counting as days less one
nights_by_length_of_stay(doc) ==
    LET los == doc.los
        raw == IF los.nights.k # "absent" THEN los.nights ELSE los.days
    IN  IF ~los.present THEN NoNights
        ELSE IF los.text.k = "int" THEN NightsVal(los.text.v)
        ELSE IF raw.k # "int" THEN NoNights
        ELSE IF los.days.k # "absent" /\ los.nights.k = "absent"
             THEN NightsVal(IF raw.v - 1 > 0 THEN raw.v - 1 ELSE 0)
             ELSE NightsVal(raw.v)

\* 5) the Start/End ranges in the order StayDateRange, DateRange, TimeSpan:
\* the first whose two dates parse and do not run backwards
RECURSIVE nights_by_range(_)
nights_by_range(ranges) ==
    IF ranges = <<>> THEN NoNights
    ELSE LET dr == Head(ranges) IN
         IF dr.start.k = "int" /\ dr.end.k = "int" /\ dr.end.v - dr.start.v >= 0
         THEN NightsVal(dr.end.v - dr.start.v)
         ELSE nights_by_range(Tail(ranges))

EmptyDuration == [n |-> 0, word |-> ""]

\* f"{n} notte" for one night, f"{n} notti" otherwise, "" without a value
duration_of(doc) ==
    LET m1 == nights_by_attribute(doc)
        m2 == IF m1.found THEN m1 ELSE nights_by_node(doc)
        m3 == IF m2.found THEN m2 ELSE nights_by_duration(doc)
        m4 == IF m3.found THEN m3 ELSE nights_by_length_of_stay(doc)
        m5 == IF m4.found THEN m4 ELSE nights_by_range(doc.ranges)
    IN  IF m5.found /\ m5.n >= 0
        THEN [n |-> m5.n, word |-> IF m5.n = 1 THEN "notte" ELSE "notti"]
        ELSE EmptyDuration


\* html.unescape(), for the entity the texts of the model carry: "&amp;"
RECURSIVE html_unescape(_)
html_unescape(t) ==
    IF t = <<>> THEN <<>>
    ELSE IF Len(t) >= 5 /\ SubSeq(t, 1, 5) = <<"&", "a", "m", "p", ";">>
         THEN <<"&">> \o html_unescape(SubSeq(t, 6, Len(t)))
         ELSE <<Head(t)>> \o html_unescape(Tail(t))

\* the values a loop of the parser appends: _txt() of each node, the empty
\* ones skipped
Texts(nodes) ==
    LET kept == SelectSeq(nodes, LAMBDA n : Strip(n) # <<>>)
    IN  [i \in 1..Len(kept) |-> Strip(kept[i])]

\* the non-empty values of seq, each once, in the order first seen
RECURSIVE _dedupe(_)
_dedupe(seq) ==
    IF seq = <<>> THEN <<>>
    ELSE LET init == _dedupe(SubSeq(seq, 1, Len(seq) - 1))
             x    == seq[Len(seq)]
         IN  IF x # <<>> /\ \A i \in 1..Len(init) : init[i] # x
             THEN Append(init, x) ELSE init

\* the descriptions: the TextItem descriptions, else the childless
\* Description nodes; each stripped, then unescaped
descriptions_of(doc) ==
    LET items == Texts(doc.text_items)
        found == IF items # <<>> THEN items ELSE Texts(doc.plain)
    IN  [i \in 1..Len(found) |-> html_unescape(found[i])]

\* the empty dict of a document that cannot be read
EmptyDetail ==
    [empty |-> TRUE, descriptions |-> <<>>, categories |-> <<>>, types |-> <<>>,
     duration |-> EmptyDuration, image_urls |-> <<>>]

parse_ota_descriptive_detail(doc) ==
    IF ~doc.wellformed THEN EmptyDetail
    ELSE IF doc.errors # <<>> \/ ~doc.container THEN EmptyDetail
    ELSE [empty        |-> FALSE,
          descriptions |-> _dedupe(descriptions_of(doc)),
          categories   |-> _dedupe(Texts(doc.categories)),
          types        |-> _dedupe(Texts(<<doc.product_type>>)),
          duration     |-> duration_of(doc),
          image_urls   |-> _dedupe(Texts(doc.image_urls))]

\* parse_quote_full, for the fields the quote page reads first
parse_quote_full(doc) ==
    IF ~doc.wellformed
    THEN [total |-> None, errors |-> <<SyntaxErrorText>>, success |-> FALSE, images |-> <<>>]
    ELSE LET errors == [i \in 1..Len(doc.errors) |->
                          Strip(doc.errors[i].Code \o <<" ">> \o doc.errors[i].ShortText)]
             total  == IF ~doc.total.present THEN None
                       ELSE IF ~Falsy(doc.total.after) THEN doc.total.after
                       ELSE doc.total.before
         IN  [total   |-> total,
              errors  |-> errors,
              success |-> errors = <<>> /\ ~Falsy(total),
              images  |-> Texts(doc.images)]

\* getattr(settings, name, None) on a row of OTASetting
GetAttr(settings, name) ==
    IF name \in DOMAIN settings THEN settings[name] ELSE None

NoAuth == [user |-> None, password |-> None]
HTTPBasicAuth(user, password) == [user |-> user, password |-> password]

\* what post_ota_xml hands to requests.post: the Authorization header
\* (None when there is none) and the auth argument
post_ota_xml(settings, authorization) ==
    LET bearer == GetAttr(settings, "bearer_token")
        header == IF ~Falsy(bearer) THEN <<"Bearer">> \o bearer ELSE authorization
        http_user == GetAttr(settings, "http_user")
        http_pwd  == GetAttr(settings, "http_password")
        rid == GetAttr(settings, "requestor_id")
        mpw == GetAttr(settings, "message_password")
    IN  [ authorization |-> header,
          auth |-> IF header # None THEN NoAuth
                   ELSE IF ~Falsy(http_user) /\ ~Falsy(http_pwd)
                        THEN HTTPBasicAuth(http_user, http_pwd)
                   ELSE IF ~Falsy(rid) /\ ~Falsy(mpw) THEN HTTPBasicAuth(rid, mpw)
                   ELSE NoAuth ]

\* the variables of the search, which the service calls leave alone
search_vars == << db_vars, pc, abort, req, candidate_deps, lookups, dep_i, posts,
                 all_offers, all_warnings, groups_map, off_i, groups >>

Invoke(name, arg, result) ==
    /\ called' = [name |-> name, arg |-> arg]
    /\ returned' = result
    /\ UNCHANGED << search_vars, job_vars, cancelled >>

\* the Totals an activity may hold at one place: none, one without amount,
\* one with the amount after tax, one with the amount before tax, both
Totals(a, b) ==
    { NoTotal, TotalEl(None, None), TotalEl(a, None), TotalEl(None, b), TotalEl(a, b) }

NoExt == [present |-> FALSE,
          fields |-> [Amount |-> NoField, TotalPrice |-> NoField, GrossAmount |-> NoField]]

Ext(tp, ga, am) ==
    [present |-> TRUE,
     fields |-> [Amount |-> am, TotalPrice |-> tp, GrossAmount |-> ga]]

Exts ==
    { NoExt,
      Ext(Field(None, None, None, None), NoField, Field(None, None, None, <<"4", "4">>)),
      Ext(NoField, Field(None, None, <<"4", "3">>, None), Field(<<"4", "1">>, None, None, None)) }

PricedActivities ==
    { [price |-> p, ext |-> e, rate |-> r, other |-> o] :
        r \in Totals(<<"1", "1">>, <<"1", "2">>),
        p \in Totals(<<"2", "1">>, <<"4", "5", "0", ".", "0", "0">>),
        o \in { NoTotal, TotalEl(None, None), TotalEl(<<"3", "1">>, None) },
        e \in Exts }

AvailabilityDocs ==
    { [errors |-> <<>>, activities |-> a, wellformed |-> TRUE] :
        a \in {<<>>} \cup { <<x>> : x \in PricedActivities } }
    \cup { [errors |-> <<OtaError>>, activities |-> <<x>>, wellformed |-> TRUE] :
             x \in { y \in PricedActivities : y.rate.after # None /\ ~y.ext.present
                                               /\ ~y.price.present /\ ~y.other.present } }
    \cup { Malformed }

XmlParseAvailability ==
    \E doc \in AvailabilityDocs :
        Invoke("ota_xml.parse_availability_xml", doc, parse_availability_xml(doc))

IoParseAvailability ==
    \E doc \in AvailabilityDocs :
        Invoke("ota_io.parse_availability_xml", doc, io_parse_availability_xml(doc))

ProductAvailability ==
    \E outcome \in { [kind |-> "network", content |-> Malformed] }
                     \cup { [kind |-> "ok", content |-> d] : d \in AvailabilityDocs } :
        Invoke("ota_product_availability", outcome, ota_product_availability(outcome))

\* the bound on the nodes of one kind a document of the model carries
MaxItems == 3

\* a LengthOfStay element: its text, its Nights and Days attributes, and its
\* Unit attribute, which the parser does not read
NoLos == [nights |-> Absent, text |-> Absent, present |-> FALSE, unit |-> "", days |-> Absent]
Los(text, nights, days) ==
    [nights |-> nights, text |-> text, present |-> TRUE, unit |-> "", days |-> days]
NoDurn == [present |-> FALSE, digits |-> Absent, unit |-> "", says_nights |-> FALSE]
Durn(digits, unit, says) == [present |-> TRUE, digits |-> digits, unit |-> unit, says_nights |-> says]
DateRange(start, end) == [start |-> start, end |-> end]

\* a descriptive document that holds one plain description and no duration
PlainDetail ==
    [ product_type |-> <<>>, errors |-> <<>>, wellformed |-> TRUE,
      attr_el |-> [name |-> "TourActivityInfo", nights |-> Absent, present |-> FALSE], node_nights |-> Absent, durn |-> NoDurn,
      los |-> NoLos, ranges |-> <<>>,
      text_items |-> <<>>,
      plain |-> <<<<"p">>>>, categories |-> <<>>, image_urls |-> <<>>, container |-> TRUE ]

DescTexts == { <<"&">>, <<" ", "&">>, <<"&", "a", "m", "p", ";">>, <<" ">> }
Urls == { <<"u">>, <<"v">>, <<"u", " ">> }

DescriptiveDocs ==
    { [PlainDetail EXCEPT !.attr_el = a, !.node_nights = n, !.durn = d, !.los = l,
                          !.ranges = r] :
        a \in { PlainDetail.attr_el,
                [name |-> "TourActivityInfo", nights |-> IntText(7), present |-> TRUE] },
        n \in { Absent, IntText(5), Bad },
        d \in { NoDurn, Durn(IntText(8), "days", FALSE), Durn(IntText(1), "nights", FALSE),
                Durn(IntText(6), "", TRUE), Durn(IntText(6), "", FALSE), Durn(Bad, "days", FALSE) },
        l \in { NoLos, Los(IntText(3), Absent, Absent), Los(Bad, IntText(4), Absent),
                Los(Absent, Absent, IntText(4)) },
        r \in { <<>>, <<DateRange(IntText(10), IntText(12))>>,
                <<DateRange(IntText(17), IntText(10)), DateRange(IntText(10), IntText(11))>>,
                <<DateRange(Bad, IntText(10))>> } }
    \cup { [PlainDetail EXCEPT !.text_items = t] : t \in SeqsUpTo(DescTexts, MaxItems) }
    \cup { [PlainDetail EXCEPT !.image_urls = u, !.categories = u, !.product_type = y] :
             u \in SeqsUpTo(Urls, MaxItems), y \in {<<>>, <<"T">>} }
    \cup { [PlainDetail EXCEPT !.errors = <<OtaError>>],
           [PlainDetail EXCEPT !.container = FALSE], Malformed }

QuoteDocs ==
    { [total |-> t, errors |-> e, wellformed |-> TRUE, images |-> <<>>] :
        e \in {<<>>, <<OtaError>>},
        t \in { NoTotal, TotalEl(<<"9">>, None), TotalEl(None, <<"8">>) } }
    \cup { [total |-> TotalEl(<<"9">>, None), errors |-> <<>>, wellformed |-> TRUE,
             images |-> u] : u \in SeqsUpTo(Urls, MaxItems) }
    \cup { Malformed }

\* rows of OTASetting, for the columns post_ota_xml may read
AuthSettings ==
    { [ requestor_id |-> r, message_password |-> m, bearer_token |-> b,
        basic_user |-> u, basic_pass |-> p ] :
        b \in { None, <<>>, <<"B">> }, u \in { <<>>, <<"u">> }, p \in { <<>>, <<"p">> },
        r \in { <<>>, <<"I">> }, m \in { <<>>, <<"P">> } }

DescriptiveDetail ==
    \E doc \in DescriptiveDocs :
        Invoke("parse_ota_descriptive_detail", doc, Returns(parse_ota_descriptive_detail(doc)))

QuoteFull ==
    \E doc \in QuoteDocs :
        Invoke("parse_quote_full", doc, Returns(parse_quote_full(doc)))

PostOtaXml ==
    \E s \in AuthSettings, authorization \in { None, <<"Bearer", "C">> } :
        Invoke("post_ota_xml", [settings |-> s, authorization |-> authorization],
               Returns(post_ota_xml(s, authorization)))

NextServices ==
    \/ XmlParseAvailability \/ IoParseAvailability \/ ProductAvailability
    \/ DescriptiveDetail \/ QuoteFull \/ PostOtaXml

InitServices ==
    /\ setting = FullSetting
    /\ departures_cache = NoTable
    /\ catalog = NoTable
    /\ Idle

SpecServices == InitServices /\ [][NextServices]_vars

\* descriptive documents that state the length of the stay in days, in
\* nights, as a range of dates (days of June 2025), or in several ways
DurationDocs ==
    { [PlainDetail EXCEPT !.node_nights = n, !.durn = d, !.los = l, !.ranges = r] :
        n \in { Absent, IntText(7) },
        d \in { NoDurn, Durn(IntText(10), "days", FALSE), Durn(IntText(0), "days", FALSE),
                Durn(IntText(7), "nights", FALSE) },
        l \in { NoLos, Los(Absent, Absent, IntText(10)), Los(Absent, Absent, IntText(0)),
                Los(Absent, IntText(7), Absent),
                [Los(IntText(10), Absent, Absent) EXCEPT !.unit = "days"] },
        r \in { <<>>, <<DateRange(IntText(1), IntText(8))>>,
                <<DateRange(IntText(8), IntText(1))>> } }

ResolveDuration ==
    \E doc \in DurationDocs :
        Invoke("parse_ota_descriptive_detail", doc, Returns(parse_ota_descriptive_detail(doc)))

NextDuration == ResolveDuration

\* the descriptive parser alone, on documents that differ in their duration
SpecDuration == InitServices /\ [][NextDuration]_vars

(***************************************************************************)
(* Properties of the per-airport calls                                     *)
(***************************************************************************)
AfterFanout == pc \in {"aggregate", "done", "crashed"}

\* the airports posted to, in order
PostedDeps == [i \in 1..Len(posts) |-> posts[i].dep]

CallFailed(p) ==
    p.out.kind \in {"network", "http"} \/ ~p.out.content.wellformed

\* the warnings of failed calls recorded for airport dep
FailureWarnings(dep) ==
    SelectSeq(all_warnings,
              LAMBDA w : w.kind \in {"network", "http", "parse"} /\ w.dep = dep)

\* the bookable activities of a response whose stay, cut to its date, is
\* the requested one, as offers of airport dep
RECURSIVE MatchingOffers(_, _)
MatchingOffers(acts, dep) ==
    IF acts = <<>> THEN <<>>
    ELSE LET a    == Head(acts)
             o    == OfferOf(a, dep, req)
             keep == /\ a.status \in {"AvailableForSale", "Available", "AVAILABLE"}
                     /\ Take10(o.start) = req.start_date
                     /\ Take10(o.end) = req.end_date
         IN  (IF keep THEN <<o>> ELSE <<>>) \o MatchingOffers(Tail(acts), dep)

\* the offers the calls made so far should have contributed
RECURSIVE ExpectedOffers(_)
ExpectedOffers(ps) ==
    IF ps = <<>> THEN <<>>
    ELSE LET p == ps[Len(ps)]
         IN  ExpectedOffers(SubSeq(ps, 1, Len(ps) - 1))
               \o (IF CallFailed(p) THEN <<>>
                   ELSE MatchingOffers(p.out.content.activities, p.dep))

\* C1: per-airport calls are independent: each failed airport (network
\* error or timeout, non-200 status, unparseable response) adds one warning
\* and no offers, the search is not aborted, every candidate airport is
\* still queried, and the offers collected are exactly the date-matching
\* offers of the airports that succeeded.
C1_IndependentCalls ==
    pc \in {"fanout", "aggregate", "done", "crashed"} =>
        /\ abort = NoAbort
        /\ AfterFanout => PostedDeps = candidate_deps
        /\ \A i \in 1..Len(posts) :
             CallFailed(posts[i]) =>
               /\ Len(FailureWarnings(posts[i].dep)) = 1
               /\ \A j \in 1..Len(all_offers) :
                    all_offers[j].departure_location # posts[i].dep
        /\ all_offers = ExpectedOffers(posts)

\* a search of two airports whose first call failed and whose second call
\* brought an offer
C1_Witness ==
    /\ pc = "done"
    /\ Len(posts) = 2
    /\ CallFailed(posts[1])
    /\ ~CallFailed(posts[2])
    /\ Len(all_offers) = 1
    /\ Len(groups) = 1

\* C2: exactly one Availability request is issued per candidate airport, in
\* candidate order, and no request is sent again for an airport whose call
\* failed.
C2_OneRequestPerAirport ==
    /\ Len(posts) <= Len(candidate_deps)
    /\ \A i \in 1..Len(posts) : posts[i].dep = candidate_deps[i]
    /\ \A i, j \in 1..Len(posts) : i # j => posts[i].dep # posts[j].dep
    /\ AfterFanout => Len(posts) = Len(candidate_deps)

\* a finished search of two airports, the first of which failed
C2_Witness ==
    /\ pc = "done"
    /\ Len(candidate_deps) = 2
    /\ Len(posts) = 2
    /\ posts[1].out.kind = "network"

\* the fields of the connection configuration, as the search reads them
C3_ConfigComplete ==
    \A k \in { "base_url", "bearer", "target", "primary_lang_id",
               "market_country_code", "requestor_id", "message_password",
               "chain_code" } : get_cfg(setting)[k] \notin {None, <<>>}

\* nothing resolves a departure airport: no explicit airport, no cache row,
\* no legacy product, no configured default
C3_NoAirportKnown ==
    /\ req.aptfrom = <<>>
    /\ departures_cache.rows = {}
    /\ catalog.rows = {}
    /\ setting.departure_default \in {None, <<>>}

\* C3: no Availability request is sent unless validation passed and
\* resolution produced a candidate; a search without destination, without
\* start date, with a non-positive night count, with an incomplete
\* configuration or without resolvable airport fails before any call.
C3_NoCallBeforeValidation ==
    /\ posts # <<>> =>
         /\ req.destina # <<>>
         /\ IsIsoDate(req.start_date)
         /\ req.nights > 0
         /\ C3_ConfigComplete
         /\ candidate_deps # <<>>
    /\ pc = "aborted" => posts = <<>> /\ abort.status \in {400, 500}
    /\ ( /\ pc # "idle"
         /\ \/ req.destina = <<>>
            \/ ~DateTruthy(req.start_date)
            \/ req.nights <= 0
            \/ ~C3_ConfigComplete
            \/ C3_NoAirportKnown )
       => pc = "aborted"

\* a valid search that fails because no airport is known, before any call
C3_Witness ==
    /\ pc = "aborted"
    /\ abort = NoAirport
    /\ C3_NoAirportKnown
    /\ posts = <<>>

(***************************************************************************)
(* Properties of the date filter and of the empty result                   *)
(***************************************************************************)
\* the day of the stay a date text names, whatever time of day follows it
SameDay(x, day) == x.k = "date" /\ IsIsoDate(day) /\ x.d = day.d

\* the offers of the answered calls, on the requested dates or not
ReturnedOffers ==
    UNION { Range(_parse_response(posts[i].out.content, posts[i].dep, req).offers) :
              i \in { n \in 1..Len(posts) : ~CallFailed(posts[n]) } }

\* C7: every offer that reaches the aggregator has the requested start and
\* end dates as the dates of its stay (a time of day after the date is not
\* part of it); an offer of a successful response with another start or
\* end is discarded before aggregation.
C7_OnlyRequestedDates ==
    /\ \A i \in 1..Len(all_offers) :
         /\ SameDay(all_offers[i].start, req.start_date)
         /\ SameDay(all_offers[i].end, req.end_date)
    /\ \A o \in ReturnedOffers :
         (~SameDay(o.start, req.start_date) \/ ~SameDay(o.end, req.end_date))
           => o \notin Range(all_offers)
    /\ \A i \in 1..Len(groups_map) : \A j \in 1..Len(groups_map[i].offers) :
         groups_map[i].offers[j] \in Range(all_offers)

\* a finished search that kept an offer stamped with a time of day and
\* discarded one that starts on the requested day and ends a day later
C7_Witness ==
    /\ pc = "done"
    /\ \E i \in 1..Len(all_offers) : all_offers[i].start.t = "T"
    /\ \E o \in ReturnedOffers :
         /\ SameDay(o.start, req.start_date)
         /\ ~SameDay(o.end, req.end_date)
         /\ o \notin Range(all_offers)
    /\ Len(groups) = 1

\* C8: when no offer remains after all candidate airports have been tried,
\* the search completes as a valid empty outcome (no abort, no exception,
\* no group) and the warnings returned include the diagnostic that lists
\* the airports queried.
C8_EmptyOutcome ==
    /\ pc = "crashed" => all_offers # <<>>
    /\ (AfterFanout /\ all_offers = <<>>) => abort = NoAbort /\ groups_map = <<>>
    /\ (pc = "done" /\ all_offers = <<>>) =>
         /\ groups = <<>>
         /\ \E i \in 1..Len(meta_raw_errors) :
              meta_raw_errors[i] = Warning("no_availability", <<>>, Join(PostedDeps))

\* a finished search of two airports without any offer
C8_Witness ==
    /\ pc = "done"
    /\ Len(posts) = 2
    /\ all_offers = <<>>
    /\ groups = <<>>

(***************************************************************************)
(* Properties of the departure-airport resolution                          *)
(***************************************************************************)
\* the cache rows of the requested destination, or of the requested product
RowsOfSearch ==
    { row \in departures_cache.rows :
        IF req.product_core # <<>>
        THEN LikePrefix(row.product_code, req.product_core)
        ELSE row.city_code = req.destina }

InWindow(row) ==
    req.start_date.d <= row.depart_date.d /\ row.depart_date.d <= req.end_date.d

\* the three-letter airports of a set of cache rows
AirportsOf(rows) ==
    { row.depart_airport : row \in { x \in rows : x.depart_airport # None
                                                  /\ Len(x.depart_airport) = 3 } }

ExactStayTier == AirportsOf({ row \in RowsOfSearch :
                                InWindow(row) /\ row.duration_days = req.nights })
RelaxedNightsTier == AirportsOf({ row \in RowsOfSearch : InWindow(row) })
AnyDateTier == AirportsOf(RowsOfSearch)

\* C4: the resolver is a fallback chain, each tier consulted only if the
\* previous one yields nothing: cache rows in the date window with the
\* exact night count, then cache rows in the window with any night count,
\* then cache rows of any date, then the legacy derivation, then the
\* default airport; an empty exact-stay tier and a non-empty relaxed tier
\* resolve to the relaxed airports, not to the default airport.
C4_FallbackChain ==
    (pc = "fanout" /\ req.aptfrom = <<>> /\ departures_cache.exists) =>
        /\ ExactStayTier # {} =>
             candidate_deps = Take(SortedStrs(ExactStayTier), MaxDeps)
        /\ (ExactStayTier = {} /\ RelaxedNightsTier # {}) =>
             candidate_deps = Take(SortedStrs(RelaxedNightsTier), MaxDeps)
        /\ (RelaxedNightsTier = {} /\ AnyDateTier # {}) =>
             candidate_deps = Take(SortedStrs(AnyDateTier), MaxDeps)
        /\ "legacy" \in Range(lookups) => AnyDateTier = {}
        /\ "default" \in Range(lookups) => "legacy" \in Range(lookups)

\* a search whose exact-stay rows name no three-letter airport, whose
\* window holds a row of FCO for another night count, and which is resolved
\* to the default airport
C4_Witness ==
    /\ pc = "fanout"
    /\ req.aptfrom = <<>>
    /\ ExactStayTier = {}
    /\ RelaxedNightsTier = { <<"F", "C", "O">> }
    /\ lookups = <<"q1", "legacy", "default">>
    /\ candidate_deps = << _to3(setting.departure_default) >>

\* C5: when the caller supplies an explicit departure airport (the code
\* given, upper-cased, trimmed and cut to three characters), the candidate
\* list is exactly that one airport and no departure-cache, product-catalog
\* or default-airport lookup is made.
C5_ExplicitAirportOnly ==
    (pc # "idle" /\ req.aptfrom # <<>>) =>
        /\ lookups = <<>>
        /\ pc = "fanout" => candidate_deps = << Take(req.aptfrom, 3) >>
        /\ pc = "aborted" => abort # NoAirport

\* a search for an explicit airport over a cache that knows other airports
\* for the destination
C5_Witness ==
    /\ pc = "fanout"
    /\ req.aptfrom = <<"B", "G", "Y", "X">>
    /\ candidate_deps = << <<"B", "G", "Y">> >>
    /\ AnyDateTier # {}
    /\ <<"B", "G", "Y">> \notin AnyDateTier

\* C6: whenever resolution succeeds, by any tier, the candidate list is
\* ordered, has no duplicates, has at most 10 entries, and every entry is
\* a 3-letter airport code.
C6_CandidateListShape ==
    pc = "fanout" =>
        /\ \A i \in 1..(Len(candidate_deps) - 1) :
             StrLess(candidate_deps[i], candidate_deps[i + 1])
        /\ Len(candidate_deps) <= MaxDeps
        /\ \A i \in 1..Len(candidate_deps) : Len(candidate_deps[i]) = 3

\* a search for the explicit airport code MI, sent on with that code
C6_Witness ==
    /\ pc = "fanout"
    /\ req.aptfrom = <<"M", "I">>
    /\ candidate_deps = << <<"M", "I">> >>

(***************************************************************************)
(* Properties of the aggregation                                           *)
(***************************************************************************)
PriceOf(o) == _parse_price(o.total_price)

\* min is the lowest of the prices of the offers os, and is one of them
LowestOf(min, os) ==
    /\ \E j \in 1..Len(os) : PriceOf(os[j]) = min
    /\ \A j \in 1..Len(os) : ~PriceLt(PriceOf(os[j]), min)

\* the first of the offers os at price min
FirstAt(min, os) == os[CHOOSE j \in 1..Len(os) :
                         /\ PriceOf(os[j]) = min
                         /\ \A k \in 1..(j - 1) : PriceOf(os[k]) # min]

C9_MinIsLowest ==
    \A i \in 1..Len(groups_map) :
        LET g == groups_map[i]
        IN  /\ LowestOf(g.min_price, g.offers)
            /\ g.currency = FirstAt(g.min_price, g.offers).currency

C9_OnlyDecreases ==
    \A i \in 1..Len(groups_map) :
        /\ i <= Len(groups_map')
        /\ groups_map'[i].product_core = groups_map[i].product_core
        /\ ~PriceLt(groups_map[i].min_price, groups_map'[i].min_price)

\* C9: while offers are folded into a group its minimum price only
\* decreases; after any sequence of offers the minimum price of the group is
\* the lowest price among its member offers and its currency is the
\* currency of the offer that produced that minimum.
C9_MinPriceTracksLowest == [][C9_OnlyDecreases /\ C9_MinIsLowest']_vars

\* offers at 300 USD and then at 250 in the currency of the search, for
\* the same product: one group with minimum price 250 EUR
C9_Witness ==
    /\ pc = "done"
    /\ Len(groups) = 1
    /\ LET g == groups[1].group
       IN  /\ Len(g.offers) = 2
           /\ PriceOf(g.offers[1]) = Num(300)
           /\ g.offers[1].currency = <<"U", "S", "D">>
           /\ PriceOf(g.offers[2]) = Num(250)
           /\ g.min_price = Num(250)
           /\ g.currency = EUR

\* the offers of group g that carry departure variant depv
OffersOfVariant(g, depv) ==
    SelectSeq(g.offers, LAMBDA o : _split_codes(o.booking_code).dep_variant = depv)

\* C10: after aggregating any offer list, each group holds at most one
\* FlightSolution per departure variant, its package code is
\* product-core#departure-variant, and its minimum price is the lowest
\* price among the offers of the group that carry that variant.
C10_OneSolutionPerVariant ==
    \A i \in 1..Len(groups_map) :
        LET g == groups_map[i]
        IN  /\ \A j, k \in 1..Len(g.flights) :
                 g.flights[j].depv = g.flights[k].depv => j = k
            /\ \A j \in 1..Len(g.flights) :
                 LET sol == g.flights[j]
                 IN  /\ sol.package_code = g.product_core \o <<"#">> \o sol.depv
                     /\ LowestOf(sol.min_price, OffersOfVariant(g, sol.depv))
            /\ \A j \in 1..Len(g.offers) :
                 LET depv == _split_codes(g.offers[j].booking_code).dep_variant
                 IN  ~Falsy(depv) => \E k \in 1..Len(g.flights) : g.flights[k].depv = depv

\* a group of three offers in two departure variants, one variant offered
\* at 300 and then at 250
C10_Witness ==
    /\ pc = "done"
    /\ \E i \in 1..Len(groups) :
         /\ Len(groups[i].group.offers) = 3
         /\ Len(groups[i].flight_solutions) = 2
         /\ \E j \in 1..2 :
              LET sol == groups[i].flight_solutions[j]
                  os  == OffersOfVariant(groups[i].group, sol.depv)
              IN  /\ Len(os) = 2
                  /\ PriceOf(os[1]) = Num(300)
                  /\ PriceOf(os[2]) = Num(250)
                  /\ sol.min_price = Num(250)
                  /\ sol.package_code = Product(<<"B", "G", "Y", "1">>)

(***************************************************************************)
(* Properties of the ranking                                               *)
(***************************************************************************)
\* price a is at most price b
PriceLeq(a, b) == a = b \/ PriceLt(a, b)

TextLeqStr(a, b) == a = b \/ StrLess(a, b)

\* group g may stand before group h
GroupBefore(g, h) ==
    \/ g.is_recommended /\ ~h.is_recommended
    \/ /\ g.is_recommended = h.is_recommended
       /\ \/ g.min_price # h.min_price /\ PriceLt(g.min_price, h.min_price)
          \/ g.min_price = h.min_price /\ TextLeqStr(g.name, h.name)

\* flight solution a may stand before flight solution b
SolutionBefore(a, b) ==
    \/ a.min_price # b.min_price /\ PriceLt(a.min_price, b.min_price)
    \/ a.min_price = b.min_price /\ TextLeqStr(a.package_code, b.package_code)

\* C11: the groups a search returns are sorted by (recommended first,
\* ascending min price, name) and the flight solutions of every group by
\* (ascending min price, package code); they are the groups and the
\* solutions of the aggregation, none lost and none added.
C11_Ranked ==
    pc = "done" =>
        /\ \A i, j \in 1..Len(groups) :
             i < j => GroupBefore(groups[i].group, groups[j].group)
        /\ Len(groups) = Len(groups_map)
        /\ { groups[i].group : i \in 1..Len(groups) } = Range(groups_map)
        /\ \A i \in 1..Len(groups) :
             LET fs == groups[i].flight_solutions
             IN  /\ \A j, k \in 1..Len(fs) : j < k => SolutionBefore(fs[j], fs[k])
                 /\ Len(fs) = Len(groups[i].group.flights)
                 /\ Range(fs) = Range(groups[i].group.flights)

\* three groups returned in another order than they were met: the
\* recommended one first although dearest, the other two at one price in
\* the order of their names
C11_Witness ==
    /\ pc = "done"
    /\ Len(groups) = 3
    /\ ~groups_map[1].is_recommended
    /\ groups[1].group = groups_map[3]
    /\ groups[1].group.min_price = Num(300)
    /\ groups[2].group = groups_map[2]
    /\ groups[2].group.min_price = Num(250)
    /\ groups[3].group.min_price = Num(250)

(***************************************************************************)
(* Determinism of the aggregation                                          *)
(***************************************************************************)
\* the aggregation of the offers os run again from nothing, in their order
RECURSIVE AggregateAgain(_)
AggregateAgain(os) ==
    IF os = <<>> THEN [raised |-> FALSE, gm |-> <<>>]
    ELSE LET before == AggregateAgain(SubSeq(os, 1, Len(os) - 1))
         IN  IF before.raised THEN before
             ELSE FoldOffer(before.gm, os[Len(os)], req, catalog)

\* the order of the groups and their minimum prices
OrderAndPrices(gs) ==
    [ i \in 1..Len(gs) |-> << gs[i].group.product_core, gs[i].group.min_price >> ]

ErrorPosts ==
    { i \in 1..Len(posts) : ~CallFailed(posts[i]) /\ posts[i].out.content.errors # <<>> }

\* C13: whenever an availability response contains an Errors/Error
\* element, parsing yields the failure (code and short text) alone: no
\* offer and no price of that response is returned alongside the error,
\* whatever price markup the response also holds.
C13_ErrorShortCircuits ==
    \A i \in ErrorPosts :
        /\ \A j \in 1..Len(all_offers) :
             all_offers[j].departure_location # posts[i].dep
        /\ _parse_response(posts[i].out.content, posts[i].dep, req).offers = <<>>

\* a finished search whose only response held an Error element and a
\* priced activity, and returned a group for it
C13_Witness ==
    /\ pc = "done"
    /\ Len(posts) = 1
    /\ ErrorPosts = {1}
    /\ all_warnings = << Warning("ota", <<>>, <<"1", " ", "N", "O">>) >>
    /\ Len(all_offers) = 1
    /\ all_offers[1].total_price = Amount(250)
    /\ Len(groups) = 1

(***************************************************************************)
(* Properties of the availability parsers of the services                  *)
(***************************************************************************)
\* the document the call in progress parsed
ParsedDoc ==
    IF called.name = "ota_product_availability" THEN called.arg.content ELSE called.arg

IsAvailabilityParse ==
    \/ called.name \in {"ota_xml.parse_availability_xml", "ota_io.parse_availability_xml"}
    \/ called.name = "ota_product_availability" /\ called.arg.kind = "ok"

\* C14: malformed XML never leaves a response parser as an exception: the
\* parser catches it and returns a structured ok:false result that carries
\* a diagnostic text.
C14_MalformedIsCaught ==
    (IsAvailabilityParse /\ ~ParsedDoc.wellformed) =>
        /\ ~returned.raised
        /\ ~returned.value.ok
        /\ returned.value.error_text \notin {None, <<>>}

\* the product availability page given a response that is no XML: the
\* exception of the parser leaves the page
C14_Witness ==
    /\ called.name = "ota_product_availability"
    /\ called.arg.kind = "ok"
    /\ ~called.arg.content.wellformed
    /\ returned = Raises("XMLSyntaxError")


\* the first text of a sequence that is an amount, the empty text if none is
RECURSIVE FirstAmount(_)
FirstAmount(texts) ==
    IF texts = <<>> THEN <<>>
    ELSE IF Head(texts) \notin {None, <<>>} THEN Head(texts)
    ELSE FirstAmount(Tail(texts))

\* the amounts of the sources of the price of an activity, in their order
PriceSources(a) ==
    << a.rate.after, a.rate.before, a.price.after, a.price.before,
       a.other.after, a.other.before >>
    \o [ i \in 1..3 |->
           LET f == a.ext.fields[<<"TotalPrice", "GrossAmount", "Amount">>[i]]
           IN  FirstAmount(<< f.after, f.before, f.price, f.amount >>) ]

\* C15: the price of an activity is the first non-empty amount of its
\* sources in fixed order: the Total of the ActivityRate (after tax, else
\* before tax), the Total of the ActivityPrice, any Total under the
\* activity, the named fields of TPA_Extensions; a source that is present
\* without amount does not keep a later source from giving the price.
C15_FirstNonEmptyPrice ==
    ( /\ called.name \in {"ota_xml.parse_availability_xml", "ota_io.parse_availability_xml"}
      /\ called.arg.wellformed
      /\ called.arg.errors = <<>> ) =>
        /\ ~returned.raised
        /\ Len(returned.value.rooms) = Len(called.arg.activities)
        /\ \A i \in 1..Len(called.arg.activities) :
             returned.value.rooms[i].price = FirstAmount(PriceSources(called.arg.activities[i]))

\* an activity whose ActivityRate has a Total without amount and whose
\* ActivityPrice has a Total of 450.00 before tax, parsed to no price
C15_Witness ==
    /\ called.name = "ota_xml.parse_availability_xml"
    /\ called.arg.wellformed
    /\ Len(called.arg.activities) = 1
    /\ called.arg.activities[1].rate = TotalEl(None, None)
    /\ called.arg.activities[1].price = TotalEl(None, <<"4", "5", "0", ".", "0", "0">>)
    /\ returned = Returns(ParseSuccess(<< [currency |-> EUR, price |-> <<>>] >>))


(***************************************************************************)
(* C16                                                                     *)
(***************************************************************************)
\* the Nights attribute a document carries on one of its elements
NightsAttribute(doc) ==
    IF doc.attr_el.present /\ doc.attr_el.nights.k = "int"
    THEN NightsVal(doc.attr_el.nights.v) ELSE NoNights

\* the first method of the list that yields a value
RECURSIVE FirstFound(_)
FirstFound(methods) ==
    IF methods = <<>> THEN NoNights
    ELSE IF Head(methods).found THEN Head(methods) ELSE FirstFound(Tail(methods))

DurationText(nv) ==
    IF nv.found /\ nv.n >= 0
    THEN [n |-> nv.n, word |-> IF nv.n = 1 THEN "notte" ELSE "notti"]
    ELSE EmptyDuration

IsDetailParse == called.name = "parse_ota_descriptive_detail" /\ ~returned.value.empty

\* C16: the duration the descriptive parser returns is the value of the
\* first of the five methods that yields one, in the order Nights attribute,
\* Nights text node, Duration-like element with its unit, LengthOfStay,
\* Start/End range, and the empty text when none yields a value
C16_DurationPriority ==
    IsDetailParse =>
        returned.value.duration =
            DurationText(FirstFound(<< NightsAttribute(called.arg),
                                       nights_by_node(called.arg),
                                       nights_by_duration(called.arg),
                                       nights_by_length_of_stay(called.arg),
                                       nights_by_range(called.arg.ranges) >>))

\* C16: a document with Nights="7" on an element and a <Nights>5</Nights>
\* node has been parsed, and the duration returned is "5 notti"
C16_Witness ==
    /\ IsDetailParse
    /\ NightsAttribute(called.arg) = NightsVal(7)
    /\ nights_by_node(called.arg) = NightsVal(5)
    /\ returned.value.duration = [n |-> 5, word |-> "notti"]


(***************************************************************************)
(* C17                                                                     *)
(***************************************************************************)
NoDuplicates(seq) ==
    \A i, j \in 1..Len(seq) : i # j => seq[i] # seq[j]

\* the position at which a value is first seen in a sequence
FirstSeenAt(x, seq) == CHOOSE i \in 1..Len(seq) :
    seq[i] = x /\ \A j \in 1..(i - 1) : seq[j] # x

\* kept holds the non-empty values of seen, each once, in first-seen order
IsFirstSeen(kept, seen) ==
    /\ NoDuplicates(kept)
    /\ Range(kept) = Range(seen) \ {<<>>}
    /\ \A i, j \in 1..Len(kept) :
         i < j => FirstSeenAt(kept[i], seen) < FirstSeenAt(kept[j], seen)

\* the lists of the descriptive parser hold each value once, first seen first
DetailListsDeduplicated ==
    IsDetailParse =>
        /\ IsFirstSeen(returned.value.descriptions, descriptions_of(called.arg))
        /\ IsFirstSeen(returned.value.categories, Texts(called.arg.categories))
        /\ IsFirstSeen(returned.value.types, Texts(<<called.arg.product_type>>))
        /\ IsFirstSeen(returned.value.image_urls, Texts(called.arg.image_urls))

\* C17: every list a parser extracts (descriptions, categories, types,
\* image URLs) holds no value twice and keeps the order in which the values
\* were first seen, in the descriptive parser and in the quote parser
C17_ListsDeduplicated ==
    /\ DetailListsDeduplicated
    /\ (called.name = "parse_quote_full" /\ called.arg.wellformed) =>
         IsFirstSeen(returned.value.images, Texts(called.arg.images))

\* C17: the quote parser has read a response that names one image URL twice
\* and has returned that URL twice
C17_Witness ==
    /\ called.name = "parse_quote_full"
    /\ called.arg.wellformed
    /\ ~NoDuplicates(Texts(called.arg.images))
    /\ ~NoDuplicates(returned.value.images)


(***************************************************************************)
(* C18                                                                     *)
(***************************************************************************)
\* a call of post_ota_xml whose caller passed no Authorization header
IsPost == called.name = "post_ota_xml" /\ called.arg.authorization = None

BasicConfigured(s) == ~Falsy(s.basic_user) /\ ~Falsy(s.basic_pass)

\* C18: post_ota_xml sends the bearer header and no basic auth when a
\* bearer token is configured; else basic auth with the configured basic
\* user and password when both are set; else basic auth with the requestor
\* id and the message password
C18_AuthPriority ==
    IsPost =>
        LET s == called.arg.settings IN
        IF ~Falsy(s.bearer_token)
        THEN returned.value = [authorization |-> <<"Bearer">> \o s.bearer_token,
                               auth |-> NoAuth]
        ELSE IF BasicConfigured(s)
        THEN returned.value = [authorization |-> None,
                               auth |-> HTTPBasicAuth(s.basic_user, s.basic_pass)]
        ELSE ~Falsy(s.requestor_id) /\ ~Falsy(s.message_password) =>
               returned.value = [authorization |-> None,
                                 auth |-> HTTPBasicAuth(s.requestor_id, s.message_password)]

\* C18: a request was sent for a setting without bearer token, with basic
\* user and password both set, and it carried the requestor id and the
\* message password as basic auth
C18_Witness ==
    /\ IsPost
    /\ Falsy(called.arg.settings.bearer_token)
    /\ BasicConfigured(called.arg.settings)
    /\ returned.value.auth = HTTPBasicAuth(called.arg.settings.requestor_id,
                                           called.arg.settings.message_password)
    /\ returned.value.auth # NoAuth


(***************************************************************************)
(* C19                                                                     *)
(***************************************************************************)
\* the conditions of the validation that the search in hand violates
Violated ==
    { c \in { "destination", "start_date", "nights", "configuration" } :
        \/ c = "destination" /\ Falsy(req.destina)
        \/ c = "start_date" /\ ~DateTruthy(req.start_date)
        \/ c = "nights" /\ req.nights <= 0
        \/ c = "configuration" /\ ConfigIncomplete(get_cfg(setting)) }

\* a search that violates the one condition c and no other
ViolatingOnly(c) ==
    [ setting |-> IF c = "configuration" THEN [FullSetting EXCEPT !.bearer_token = None]
                  ELSE FullSetting,
      args    |-> Args(<<>>,
                       IF c = "destination" THEN <<>> ELSE RMF,
                       IF c = "start_date" THEN EmptyDate ELSE DateText(10),
                       EmptyDate,
                       IF c = "nights" THEN NightsNone ELSE NightsInt(7),
                       <<>>) ]

\* the failure reason the validation gives to the search that violates c alone
ReasonOf(c) ==
    Validate(Locals(ViolatingOnly(c).args), get_cfg(ViolatingOnly(c).setting)).description

\* C19: a search rejected for one violated condition (missing destination,
\* missing start date, non-positive nights, incomplete configuration) fails
\* with a reason that no other of these conditions is rejected with
C19_DistinctReasons ==
    \A c \in Violated :
        (pc = "aborted" /\ Violated = {c}) =>
            \A other \in { "destination", "start_date", "nights", "configuration" } \ {c} :
                abort.description # ReasonOf(other)

\* C19: a search with a start date and a positive night count but without
\* destination has been rejected with the reason that a search without a
\* start date is rejected with
C19_Witness ==
    /\ pc = "aborted"
    /\ Violated = {"destination"}
    /\ abort.description = "Parametri ricerca non validi"
    /\ abort.description = ReasonOf("start_date")
    /\ abort.description = ReasonOf("nights")


(***************************************************************************)
(* C20                                                                     *)
(***************************************************************************)
\* the loop over all_offers has taken an offer, or is over
GroupingStarted == off_i > 1 \/ groups_map # <<>> \/ pc \in {"done", "crashed"}

\* from the start of the aggregation on, every candidate airport has been
\* called and all_offers holds the offers of all the calls
C20_Complete ==
    (AfterFanout \/ GroupingStarted) =>
        /\ AfterFanout
        /\ PostedDeps = candidate_deps
        /\ all_offers = ExpectedOffers(posts)

\* from the start of the aggregation on, no call is made and no offer is added
C20_Frozen ==
    AfterFanout => posts' = posts /\ all_offers' = all_offers

\* C20: aggregation begins only after every per-airport call has completed,
\* with success or failure: its input is the complete collection of the
\* offers of all candidate airports, and nothing is added to the collection
\* once grouping has started
C20_JoinBeforeAggregation == []C20_Complete /\ [][C20_Frozen]_vars

\* C20: grouping has taken the first of two offers, one from each of the
\* two candidate airports, both calls having completed before
C20_Witness ==
    /\ pc = "aggregate"
    /\ off_i = 2
    /\ groups_map # <<>>
    /\ Len(candidate_deps) = 2
    /\ Len(posts) = 2
    /\ Len(all_offers) = 2
    /\ all_offers[1].departure_location = candidate_deps[1]
    /\ all_offers[2].departure_location = candidate_deps[2]


(***************************************************************************)
(* The departures import job: import_job.py, imports.py and the loop over *)
(* the files of import_departures.  A block under _progress_lock is one   *)
(* step.  The rows the import writes are those of upsert_departure.       *)
(***************************************************************************)
MaxWorkers == 2
MaxFiles == 2

\* an int or None, as the keyword arguments of the callbacks carry them
NoneInt == [k |-> "none", v |-> 0]
SomeInt(n) == [k |-> "int", v |-> n]

\* a or b of Python, for ints and None: 0 and None are false
PyOr(a, b) == IF a.k = "int" /\ a.v # 0 THEN a ELSE b

\* the test of start_thread on the state of the job, with progress["running"] only
BusyByProgress(p, flag) == p.running

\* the test of start_thread on the state of the job
Busy(p, flag) == p.running \/ flag

\* a thread at the start of _run_import_job
NewWorker == [pc |-> "begin", total |-> 0, done_files |-> 0, imported_rows |-> 0]

\* POST of the import: start_thread()
start_thread ==
    /\ Len(workers) < MaxWorkers
    /\ IF Busy(progress, RUNNING_FLAG)
       THEN UNCHANGED job_vars
       ELSE /\ progress' = [NoProgress EXCEPT !.running = TRUE, !.started_at = "set",
                                              !.last_msg = "Avviato"]
            /\ RUNNING_FLAG' = TRUE
            /\ workers' = Append(workers, NewWorker)
    /\ UNCHANGED << search_vars, svc_vars, cancelled >>

\* more than 60 seconds pass since the last heartbeat
Tick ==
    /\ progress.hb = "fresh"
    /\ progress' = [progress EXCEPT !.hb = "stale"]
    /\ UNCHANGED << search_vars, svc_vars, cancelled, RUNNING_FLAG, workers >>

\* a poll of the progress: the watchdog on the heartbeat; a poll that finds
\* no job running or no stale heartbeat changes nothing
get_progress ==
    /\ progress.running
    /\ progress.hb = "stale"
    /\ progress' = [progress EXCEPT !.running = FALSE, !.finished_at = "set",
                                    !.error = "stuck"]
    /\ UNCHANGED << search_vars, svc_vars, cancelled, RUNNING_FLAG, workers >>

\* _on_begin(total)
_on_begin(p, total) ==
    [p EXCEPT !.total = total, !.done = 0, !.current_file = "None", !.last_msg = "Inizio",
              !.hb = "fresh", !._last_rows_seen = 0]

\* the keyword arguments of on_step for a file that is skipped
SkippedStep(done) ==
    [rows |-> NoneInt, done |-> SomeInt(done), file |-> "None", rows_added |-> NoneInt]

\* the keyword arguments of on_step for a file that is imported
ImportedStep(done, added, rows) ==
    [rows |-> SomeInt(rows), done |-> SomeInt(done), file |-> "file",
     rows_added |-> SomeInt(added)]

\* inc of _on_step: the count of the file, else the growth of the cumulative
\* count since _last_rows_seen
IncOf(p, rows_added, rows_cum) ==
    IF rows_added.k = "int" THEN (IF rows_added.v > 0 THEN rows_added.v ELSE 0)
    ELSE IF rows_cum.k = "int"
         THEN (IF rows_cum.v - p._last_rows_seen > 0 THEN rows_cum.v - p._last_rows_seen
               ELSE 0)
    ELSE 0

\* _on_step(**kw)
_on_step(p, kw) ==
    LET idx        == PyOr(kw.done, NoneInt)
        rows_added == PyOr(kw.rows_added, NoneInt)
        rows_cum   == PyOr(kw.rows, NoneInt)
    IN  [p EXCEPT !._last_rows_seen = IF rows_added.k # "int" /\ rows_cum.k = "int"
                                      THEN rows_cum.v ELSE @,
                  !.rows = @ + IncOf(p, rows_added, rows_cum),
                  !.done = IF idx.k = "int" THEN idx.v ELSE @,
                  !.current_file = IF kw.file # "None" THEN kw.file ELSE @,
                  !.last_msg = "Step",
                  !.hb = "fresh"]

\* the threads that have not reached the end of _run_import_job
Executing == { k \in 1..Len(workers) : workers[k].pc # "ended" }

\* import_departures up to on_begin(len(json_files))
Begin(k) ==
    /\ workers[k].pc = "begin"
    /\ \E total \in 0..MaxFiles :
         /\ progress' = _on_begin(progress, total)
         /\ workers' = [workers EXCEPT ![k].total = total,
                                       ![k].pc = IF total = 0 THEN "finish" ELSE "files"]
    /\ UNCHANGED << search_vars, svc_vars, cancelled, RUNNING_FLAG >>

\* one iteration of the loop over json_files, for a file that cannot be
\* read or names no product
SkipFile(k) ==
    /\ workers[k].pc = "files"
    /\ LET done == workers[k].done_files + 1
       IN  /\ progress' = _on_step(progress, SkippedStep(done))
           /\ workers' = [workers EXCEPT ![k].done_files = done,
                                         ![k].pc = IF done = workers[k].total THEN "finish" ELSE "files"]
    /\ UNCHANGED << search_vars, svc_vars, cancelled, RUNNING_FLAG >>

\* one iteration of the loop over json_files, for a file of added rows
ImportFile(k, added) ==
    /\ workers[k].pc = "files"
    /\ LET done == workers[k].done_files + 1
           rows == workers[k].imported_rows + added
       IN  /\ progress' = _on_step(progress, ImportedStep(done, added, rows))
           /\ workers' = [workers EXCEPT ![k].done_files = done,
                                         ![k].imported_rows = rows,
                                         ![k].pc = IF done = workers[k].total THEN "finish" ELSE "files"]
    /\ UNCHANGED << search_vars, svc_vars, cancelled, RUNNING_FLAG >>

\* the return of import_departures, the backfill and the final counts
Finish(k) ==
    /\ workers[k].pc = "finish"
    /\ progress' = [progress EXCEPT !.rows = workers[k].imported_rows,
                                    !.last_msg = "Completato", !.error = "None"]
    /\ workers' = [workers EXCEPT ![k].pc = "finally"]
    /\ UNCHANGED << search_vars, svc_vars, cancelled, RUNNING_FLAG >>

\* an exception in import_departures or in the backfill
Raise(k) ==
    /\ workers[k].pc \in {"begin", "files", "finish"}
    /\ progress' = [progress EXCEPT !.last_msg = "Errore", !.error = "raised"]
    /\ workers' = [workers EXCEPT ![k].pc = "finally"]
    /\ UNCHANGED << search_vars, svc_vars, cancelled, RUNNING_FLAG >>

\* the locked block of the finally clause
Finally(k) ==
    /\ workers[k].pc = "finally"
    /\ progress' = [progress EXCEPT !.running = FALSE, !.finished_at = "set"]
    /\ workers' = [workers EXCEPT ![k].pc = "flag"]
    /\ UNCHANGED << search_vars, svc_vars, cancelled, RUNNING_FLAG >>

\* the last statement of _run_import_job
ClearFlag(k) ==
    /\ workers[k].pc = "flag"
    /\ RUNNING_FLAG' = FALSE
    /\ workers' = [workers EXCEPT ![k].pc = "ended"]
    /\ UNCHANGED << search_vars, svc_vars, cancelled, progress >>

\* the rows a file adds
FileRows == 0..2

_run_import_job ==
    \E k \in 1..Len(workers) :
        \/ Begin(k)
        \/ SkipFile(k)
        \/ \E added \in FileRows : ImportFile(k, added)
        \/ Finish(k)
        \/ Raise(k)
        \/ Finally(k)
        \/ ClearFlag(k)

InitJob ==
    /\ setting = FullSetting
    /\ departures_cache = NoTable
    /\ catalog = NoTable
    /\ Idle

NextJob == start_thread \/ get_progress \/ Tick \/ _run_import_job

\* start requests, progress polls and the import threads, interleaved
SpecJob == InitJob /\ [][NextJob]_vars

(***************************************************************************)
(* The writes of the import: upsert_departure on the departures_cache     *)
(* table that ensure_schema creates.  loaded_at, a time stamp, is left    *)
(* out of the rows.                                                       *)
(***************************************************************************)
MetaFields == { "city_code", "area_id", "country_iso", "country_name", "product_type" }

\* meta.get(field) of the empty dict, for every field
NoMeta ==
    [ product_type |-> None, city_code |-> None, area_id |-> None,
      country_iso |-> None, country_name |-> None ]

\* the metadata of product_code in ota_product; the lru_cache of the
\* function lives as long as the process, the table changes between two
\* runs of the import
get_product_meta(cat, product_code) ==
    IF Falsy(product_code) \/ ~\E p \in cat.rows : p.tour_activity_code = product_code
    THEN NoMeta
    ELSE LET p == CHOOSE q \in cat.rows : q.tour_activity_code = product_code
         IN  [ product_type |-> p.product_type, city_code |-> p.city_code,
               area_id |-> p.area_id, country_iso |-> p.country_iso,
               country_name |-> p.country_name ]

\* COALESCE(x, y)
Coalesce(x, y) == IF x # None THEN x ELSE y

\* the UNIQUE(product_code, depart_date, duration_days) key of a row
KeyOf(r) == << r.product_code, r.depart_date, r.duration_days >>

\* the row of the VALUES clause: the row the INSERT proposes
Excluded(a, meta, id) ==
    LET dep3 == Take(Strip(Upper(OrDefault(a.depart_airport, <<>>))), 3)
    IN  [ product_type   |-> meta.product_type,
          product_code   |-> a.product_code,
          depart_airport |-> IF dep3 = <<>> THEN None ELSE dep3,
          depart_date    |-> a.depart_date,
          duration_days  |-> a.duration_days,
          city_code      |-> meta.city_code,
          id             |-> id,
          area_id        |-> meta.area_id,
          country_iso    |-> meta.country_iso,
          country_name   |-> meta.country_name,
          source_file    |-> a.source_file ]

\* a conflict resolved as the REPLACE of the table constraint would: the
\* proposed row takes the place of the existing one
ReplaceRow(r, x) == x

\* ON CONFLICT(product_code, depart_date, duration_days) DO UPDATE SET ...
UpdateRow(r, x) ==
    [ r EXCEPT !.depart_airport = x.depart_airport,
               !.source_file    = x.source_file,
               !.city_code      = Coalesce(x.city_code, @),
               !.area_id        = Coalesce(x.area_id, @),
               !.country_iso    = Coalesce(x.country_iso, @),
               !.country_name   = Coalesce(x.country_name, @),
               !.product_type   = Coalesce(x.product_type, @) ]

\* the rows of departures_cache after upsert_departure(con, db_path, **a)
upsert_departure(rows, cat, a) ==
    LET x == Excluded(a, get_product_meta(cat, a.product_code), Cardinality(rows) + 1)
    IN  IF \E r \in rows : KeyOf(r) = KeyOf(x)
        THEN { IF KeyOf(r) = KeyOf(x) THEN UpdateRow(r, x) ELSE r : r \in rows }
        ELSE rows \cup {x}

\* a row of ota_product
ProductRow(code, city, area) ==
    [ product_type |-> None, city_code |-> city, area_id |-> area,
      country_iso |-> None, country_name |-> None, tour_activity_code |-> code ]

\* the states of ota_product: missing, empty, with the product 0000RMF#BGY
\* and its city, with that product and its area
ProductTables ==
    { NoTable, Table({}),
      Table({ ProductRow(Product(<<"B", "G", "Y">>), RMF, None) }),
      Table({ ProductRow(Product(<<"B", "G", "Y">>), None, <<"1">>) }) }

\* a period of a file of the import
Period(code, airport, day, duration, file) ==
    [ product_code |-> code, depart_airport |-> airport, depart_date |-> DateText(day),
      duration_days |-> duration, source_file |-> file ]

\* the periods of the files of the import: a duration of one product with
\* and without airport from two files, a second duration of it, and a
\* second product
UpsertArgs ==
    { Period(Product(<<"B", "G", "Y">>), ap, 10, 7, f) :
        ap \in { None, <<" ", "b", "g", "y", "1">> }, f \in { <<"a">>, <<"b">> } }
    \cup { Period(Product(<<"B", "G", "Y">>), <<" ", "b", "g", "y", "1">>, 10, 14, <<"a">>),
           Period(Product(<<"M", "X", "P", "1">>), None, 12, 7, <<"b">>) }

\* one call of upsert_departure; the SELECT on a missing ota_product raises
Upsert ==
    /\ \E a \in UpsertArgs :
         /\ called' = [name |-> "upsert_departure", arg |-> a]
         /\ IF catalog.exists
            THEN /\ departures_cache' =
                      [departures_cache EXCEPT !.rows = upsert_departure(@, catalog, a)]
                 /\ returned' = Returns(None)
            ELSE /\ returned' = Raises(<<"no such table">>)
                 /\ UNCHANGED departures_cache
    /\ UNCHANGED << setting, catalog, pc, abort, req, candidate_deps, lookups, dep_i, posts,
                    all_offers, all_warnings, groups_map, off_i, groups, job_vars, cancelled >>

\* ota_product is rewritten between two runs of the import
SyncProducts ==
    /\ \E t \in ProductTables \ {catalog} : catalog' = t
    /\ UNCHANGED << setting, departures_cache, pc, abort, req, candidate_deps, lookups, dep_i,
                    posts, all_offers, all_warnings, groups_map, off_i, groups, svc_vars,
                    job_vars, cancelled >>

\* the empty table of ensure_schema
InitUpsert ==
    /\ setting = FullSetting
    /\ departures_cache = Table({})
    /\ catalog \in ProductTables
    /\ Idle

NextUpsert == Upsert \/ SyncProducts

SpecUpsert == InitUpsert /\ [][NextUpsert]_vars

(***************************************************************************)
(* C21                                                                     *)
(***************************************************************************)
\* the caller of the search goes away while the loop over candidate_deps
\* runs; the loop reads nothing but candidate_deps and the responses
Cancel ==
    /\ pc = "fanout"
    /\ cancelled = FALSE
    /\ cancelled' = TRUE
    /\ UNCHANGED << search_vars, svc_vars, job_vars >>

NextCancel == Request \/ Respond \/ Cancel

\* the search up to the end of the loop over candidate_deps, with a caller
\* that may go away at any iteration
SpecCancel == Init /\ [][NextCancel]_vars

\* C21: once the caller has cancelled the search while per-airport calls
\* are pending, no further candidate airport is queried
C21_NoCallAfterCancel == [][cancelled => posts' = posts]_vars

\* C21: the caller has cancelled before the first of two candidate airports
\* was queried, and both airports have been queried since
C21_Witness ==
    /\ cancelled
    /\ Len(candidate_deps) = 2
    /\ Len(posts) = 2
    /\ pc = "aggregate"


(***************************************************************************)
(* C22                                                                     *)
(***************************************************************************)
\* the flight solutions that groups_map holds before and after a step, as
\* pairs of positions: groups_map and the flights of a group only grow
SolutionsKept ==
    { ij \in (1..Len(groups_map)) \X (1..MaxOffers) :
        /\ ij[1] <= Len(groups_map')
        /\ ij[2] <= Len(groups_map[ij[1]].flights)
        /\ ij[2] <= Len(groups_map'[ij[1]].flights) }

\* C22: the sample flight segments of an existing flight solution change
\* only in a step that folds in a cheaper offer of its departure variant,
\* that is, a step that lowers the min price of the solution
C22_SamplesOnlyWhenCheaper ==
    [][ \A ij \in SolutionsKept :
          LET old == groups_map[ij[1]].flights[ij[2]]
              new == groups_map'[ij[1]].flights[ij[2]]
          IN  new.samples # old.samples => PriceLt(new.min_price, old.min_price) ]_vars

\* C22: a flight solution made of two offers of one departure variant, the
\* second dearer than the first, holds the price of the first and the
\* sample segments of the second
C22_Witness ==
    \E i \in 1..Len(groups_map) : \E j \in 1..Len(groups_map[i].flights) :
        LET sol == groups_map[i].flights[j]
            os  == OffersOfVariant(groups_map[i], sol.depv)
        IN  /\ Len(os) = 2
            /\ PriceLt(PriceOf(os[1]), PriceOf(os[2]))
            /\ sol.min_price = PriceOf(os[1])
            /\ os[2].flights # os[1].flights
            /\ sol.samples = os[2].flights


(***************************************************************************)
(* C23                                                                     *)
(***************************************************************************)
\* the offers that the loop over all_offers has taken so far
Folded == SubSeq(all_offers, 1, off_i - 1)

\* the product-core of a booking code: what precedes the first '|', and of
\* that what precedes the first '#'
ProductCoreOf(booking_code) == SplitLeft(SplitLeft(booking_code, "|"), "#")

\* the key of the group an offer belongs to
GroupOfOffer(o) ==
    IF Falsy(o.booking_code) THEN Misc ELSE ProductCoreOf(o.booking_code)

\* the offers taken so far that belong to the group of key k, as collected
MembersOf(k) == SelectSeq(Folded, LAMBDA o : GroupOfOffer(o) = k)

RECURSIVE MemberCount(_)
MemberCount(gs) ==
    IF gs = <<>> THEN 0 ELSE Len(Head(gs).offers) + MemberCount(Tail(gs))

\* the groups gs partition the offers taken so far
Partitions(gs) ==
    /\ \A i, j \in 1..Len(gs) : gs[i].product_core = gs[j].product_core => i = j
    /\ \A i \in 1..Len(gs) : gs[i].offers = MembersOf(gs[i].product_core)
    /\ \A k \in 1..Len(Folded) :
         \E i \in 1..Len(gs) : gs[i].product_core = GroupOfOffer(Folded[k])
    /\ MemberCount(gs) = Len(Folded)

RECURSIVE FirstShown(_, _)
FirstShown(os, f) ==
    IF os = <<>> THEN None
    ELSE IF ~Falsy(Head(os)[f]) THEN Head(os)[f]
    ELSE FirstShown(Tail(os), f)

\* the image and the short description of every group are those of the
\* first of its offers that has one
C24_FirstFound ==
    \A i \in 1..Len(groups_map) :
        /\ groups_map[i].image = FirstShown(groups_map[i].offers, "image")
        /\ groups_map[i].short_desc = FirstShown(groups_map[i].offers, "short_desc")

\* a step leaves the non-empty image and short description of a group alone
C24_Kept ==
    \A i \in 1..Len(groups_map) :
        /\ i <= Len(groups_map')
        /\ ~Falsy(groups_map[i].image) => groups_map'[i].image = groups_map[i].image
        /\ ~Falsy(groups_map[i].short_desc) =>
               groups_map'[i].short_desc = groups_map[i].short_desc

\* C24: once the image (respectively the short description) of a group is
\* non-empty no later offer changes it, and a missing one is taken from the
\* first later offer that has one
C24_BackfillOnce == []C24_FirstFound /\ [][C24_Kept]_vars

\* C24: a group of three offers, the first without image, the second and
\* the third with different images, shows the image of the second
C24_Witness ==
    \E i \in 1..Len(groups_map) :
        LET g == groups_map[i]
        IN  /\ Len(g.offers) = 3
            /\ Falsy(g.offers[1].image)
            /\ ~Falsy(g.offers[2].image)
            /\ ~Falsy(g.offers[3].image)
            /\ g.offers[3].image # g.offers[2].image
            /\ g.image = g.offers[2].image


(***************************************************************************)
(* C25                                                                     *)
(***************************************************************************)
\* the offers taken so far, and the one being taken, whose total is not a
\* number though the decimal parser accepts it
NaNOffers ==
    { k \in 1..Len(all_offers) : k <= off_i /\ all_offers[k].total_price = NaNAmount }

\* C25: whatever the total prices of the offers, no price comparison of the
\* aggregation or of the sort raises
C25_NeverRaises == pc # "crashed"

\* C25: the request has failed in a price comparison, on a second offer of a
\* product whose total 'NaN' the decimal parser accepted
C25_Witness ==
    /\ pc = "crashed"
    /\ groups_map # <<>>
    /\ NaNOffers # {}
    /\ \A k \in 1..Len(all_offers) : all_offers[k].total_price # BadAmount


(***************************************************************************)
(* C26                                                                     *)
(***************************************************************************)
\* a length of v days, in nights
DaysToNights(v) == IF v - 1 > 0 THEN v - 1 ELSE 0

\* the lengths in nights that a document states: a Nights node, a
\* Duration-like element in nights or in days, a LengthOfStay in nights
\* (Nights attribute, text) or in days (Days attribute, text with a unit of
\* days), a range of dates that does not run backwards
StatedNights(doc) ==
    { doc.node_nights.v : x \in { 1 : y \in {doc.node_nights.k} \cap {"int"} } }
    \cup { IF doc.durn.unit = "days" THEN DaysToNights(doc.durn.digits.v)
           ELSE doc.durn.digits.v :
             x \in { 1 : y \in {doc.durn.present} \cap {TRUE} } }
    \cup { doc.los.nights.v : x \in { 1 : y \in {doc.los.nights.k} \cap {"int"} } }
    \cup { DaysToNights(doc.los.days.v) : x \in { 1 : y \in {doc.los.days.k} \cap {"int"} } }
    \cup { IF doc.los.unit = "days" THEN DaysToNights(doc.los.text.v)
           ELSE doc.los.text.v :
             x \in { 1 : y \in {doc.los.text.k} \cap {"int"} } }
    \cup { doc.ranges[i].end.v - doc.ranges[i].start.v :
             i \in { j \in 1..Len(doc.ranges) :
                       doc.ranges[j].end.v - doc.ranges[j].start.v >= 0 } }

\* C26: the nights the descriptive parser resolves are one of the lengths
\* the document states, a length in days (a LengthOfStay of 10 days, a
\* Duration of 10 days) counting as one night less and never less than
\* zero, a length in nights and the day difference of a Start/End range
\* counting as they are; without any length the duration is empty
C26_DaysLessOne ==
    IsDetailParse =>
        IF StatedNights(called.arg) = {}
        THEN returned.value.duration = EmptyDuration
        ELSE /\ returned.value.duration # EmptyDuration
             /\ returned.value.duration.n \in StatedNights(called.arg)

\* C26: a document whose only length is a LengthOfStay of 10 with a unit of
\* days has been parsed, and the duration returned is 10 nights
C26_Witness ==
    /\ IsDetailParse
    /\ called.arg.los.text = IntText(10)
    /\ called.arg.los.unit = "days"
    /\ called.arg.node_nights = Absent
    /\ called.arg.durn = NoDurn
    /\ called.arg.ranges = <<>>
    /\ returned.value.duration.n = 10
    /\ StatedNights(called.arg) = {9}


(***************************************************************************)
(* C27                                                                     *)
(***************************************************************************)
\* C27: at most one import thread is executing at any time, whatever the
\* interleaving of start requests, progress polls with their watchdog and
\* the completion of the thread
C27_OneWorker == Cardinality(Executing) <= 1

\* C27: a second thread has been started after the first one ended, and the
\* watchdog has declared it stuck while it is still importing files
C27_Witness ==
    /\ Len(workers) = 2
    /\ workers[1].pc = "ended"
    /\ workers[2].pc = "files"
    /\ ~progress.running
    /\ progress.error = "stuck"
    /\ RUNNING_FLAG


(***************************************************************************)
(* C28                                                                     *)
(***************************************************************************)
\* C28: after every on_step callback progress["rows"] is the number of rows
\* imported by the files processed so far, the sum of their added counts,
\* files that add no row included
C28_RowsAreImported ==
    \A k \in 1..Len(workers) :
        workers[k].pc \in {"files", "finish"} => progress.rows = workers[k].imported_rows

\* C28: a file that added one row and a file that added none have been
\* processed, and progress["rows"] is 2
C28_Witness ==
    \E k \in 1..Len(workers) :
        /\ workers[k].pc = "finish"
        /\ workers[k].done_files = 2
        /\ workers[k].imported_rows = 1
        /\ progress.done = 2
        /\ progress._last_rows_seen = 1
        /\ progress.rows = 2


(***************************************************************************)
(* C29                                                                     *)
(***************************************************************************)
\* the threads that are in import_departures or in the backfill, before
\* the finally clause of _run_import_job
Importing == { k \in 1..Len(workers) : workers[k].pc \in {"begin", "files", "finish"} }

\* C29: in every state where the import thread is still importing,
\* progress["running"] is true and progress["finished_at"] is unset
C29_RunningWhileImporting ==
    Importing # {} => progress.running /\ progress.finished_at = "None"

\* C29: the thread has processed the first of its two files and the
\* progress says the job is not running, finished and stuck
C29_Witness ==
    /\ Len(workers) = 1
    /\ workers[1].pc = "files"
    /\ workers[1].total = 2
    /\ workers[1].done_files = 1
    /\ ~progress.running
    /\ progress.finished_at = "set"
    /\ progress.error = "stuck"


(***************************************************************************)
(* C30                                                                     *)
(***************************************************************************)
IsUpsert == called.name = "upsert_departure" /\ ~returned.raised

\* the keys of the rows of a table
KeysOf(rows) == { KeyOf(r) : r \in rows }

\* no two rows of departures_cache have the same key
C30_OneRowPerKey ==
    \A r1, r2 \in departures_cache.rows : KeyOf(r1) = KeyOf(r2) => r1 = r2

\* the row of the key of the last upsert holds its airport, as three upper
\* case letters, and its source file
C30_LastWins ==
    IsUpsert =>
        \E r \in departures_cache.rows :
            /\ KeyOf(r) = KeyOf(called.arg)
            /\ r.depart_airport =
                 (IF Falsy(called.arg.depart_airport) THEN None
                  ELSE Take(Strip(Upper(called.arg.depart_airport)), 3))
            /\ r.source_file = called.arg.source_file

\* a step removes no key, adds at most the key of its upsert, leaves the
\* rows of the other keys as they are and puts no null in the place of a
\* metadata value
C30_Step ==
    LET old == departures_cache.rows
        new == departures_cache'.rows
    IN  /\ KeysOf(old) \subseteq KeysOf(new)
        /\ \A r \in new :
             \/ r \in old
             \/ called'.name = "upsert_departure" /\ KeyOf(r) = KeyOf(called'.arg)
        /\ \A r \in old :
             (called'.name = "upsert_departure" => KeyOf(r) # KeyOf(called'.arg)) => r \in new
        /\ \A r \in old : \A r2 \in new :
             KeyOf(r) = KeyOf(r2) => \A f \in MetaFields : r[f] # None => r2[f] # None

\* C30: after any sequence of upsert_departure calls departures_cache holds
\* exactly one row per key (product_code, depart_date, duration_days) ever
\* upserted, the depart_airport and source_file of the row are those of the
\* most recent upsert of its key, and a metadata field that is not null is
\* never replaced by null
C30_UpsertKeepsOneRow == [](C30_OneRowPerKey /\ C30_LastWins) /\ [][C30_Step]_vars

\* C30: two keys have been upserted; the last upsert of the key of the
\* product 0000RMF#BGY came without airport and without metadata, and its
\* row has no airport and the city and the area of earlier upserts
C30_Witness ==
    /\ IsUpsert
    /\ Cardinality(departures_cache.rows) = 2
    /\ called.arg.depart_airport = None
    /\ get_product_meta(catalog, called.arg.product_code) = NoMeta
    /\ \E r \in departures_cache.rows :
         /\ KeyOf(r) = KeyOf(called.arg)
         /\ r.depart_airport = None
         /\ r.city_code = RMF
         /\ r.area_id = <<"1">>

====
